---- MODULE Spec2Model ----
(***************************************************************************)
(* Model of libdnf's package query (libdnf/sack/query.cpp) and goal        *)
(* (goal/Goal.cpp).  A Query is an ordered list of pending filters that is *)
(* lazily evaluated into a package set; a Goal stages solver jobs, runs    *)
(* the solver (a black box here: its answers are nondeterministic) and     *)
(* post-processes the transaction.                                         *)
(***************************************************************************)
EXTENDS Integers, Sequences, FiniteSets, TLC

VARIABLES
    installed,      \* pool->installed: id of the installed repo, 0 when NULL
    sack,           \* the sack: its pool, installonly, installonly_limit, running kernel
    excludes,       \* the sack's regular excludes
    considered,     \* pool->considered as of the last recompute (nullable map)
    queries,        \* the Query objects: applied, flags, result, filters, considered_cached
    goal,           \* the Goal object
    run,            \* the last Goal::run: flags, job built, jobs solved, final job,
                    \* what the solver returned, return
    last            \* the last call made and what it returned

vars == <<installed, sack, excludes, considered, queries, goal, run, last>>

-----------------------------------------------------------------------------
(* Bounds of the model. *)

\* pending (not yet applied) filters a Query may hold
MaxFilters == 1
\* largest |N| of a latest-N filter
MaxLatest == 2
\* tuples in the Goal's staging queue
MaxStaging == 1
\* largest installonly_limit of the sack
MaxLimit == 2

-----------------------------------------------------------------------------
(* Small helpers. *)

\* A nullable map / PackageSet (a NULL Map*, an empty unique_ptr<PackageSet>).
NullMap == [null |-> TRUE, map |-> {}]
MapOf(S) == [null |-> FALSE, map |-> S]

Min2(a, b) == IF a < b THEN a ELSE b

-----------------------------------------------------------------------------
(* The pool: a package universe that is fixed once the sack is loaded.     *)
(* Strings are interned to ids.                                            *)

\* pool_str2id(pool, s, 0): the id of an interned string, 0 when unknown.
\* Names a=1, b=2; arches x86_64=3, noarch=4; evrs "1-1"=5, "2-1"=6, "3-1"=7.
pool_str2id(s) ==
    CASE s = "a" -> 1
      [] s = "b" -> 2
      [] s = "x86_64" -> 3
      [] s = "noarch" -> 4
      [] s = "1-1" -> 5
      [] s = "2-1" -> 6
      [] s = "3-1" -> 7
      [] OTHER -> 0

\* Repositories: repo 1 is the system repo, 2 and 3 are available repos.
ReposBase == <<[name |-> "@System", priority |-> 0, start |-> 2, end |-> 4],
               [name |-> "hi", priority |-> 10, start |-> 4, end |-> 6],
               [name |-> "lo", priority |-> 5, start |-> 6, end |-> 9]>>

\* pool->solvables: id 1 is the system solvable (no repo, not a package).
PoolBase ==
        <<[name |-> 0, evr |-> 0, arch |-> 0, repo |-> 0, buildtime |-> 0],
          [name |-> 1, evr |-> 5, arch |-> 3, repo |-> 1, buildtime |-> 1],
          [name |-> 1, evr |-> 6, arch |-> 3, repo |-> 1, buildtime |-> 2],
          [name |-> 1, evr |-> 7, arch |-> 3, repo |-> 2, buildtime |-> 3],
          [name |-> 2, evr |-> 5, arch |-> 4, repo |-> 2, buildtime |-> 1],
          [name |-> 1, evr |-> 6, arch |-> 3, repo |-> 3, buildtime |-> 2],
          [name |-> 1, evr |-> 7, arch |-> 4, repo |-> 3, buildtime |-> 3],
          [name |-> 2, evr |-> 6, arch |-> 4, repo |-> 3, buildtime |-> 2]>>

\* A pool with a large system repo: of the install-only name a it holds
\* a-1-1.x86_64, the running kernel a-2-1.x86_64, a-2-1.noarch (the
\* kernel's evr), a-1-1.noarch (which requires the kernel) and a-3-1.x86_64;
\* b-1-1.noarch is in it twice (the rpm database can hold one package
\* twice).  Two more packages named a are available.
ReposDup == <<[name |-> "@System", priority |-> 0, start |-> 2, end |-> 9],
              [name |-> "hi", priority |-> 10, start |-> 9, end |-> 10],
              [name |-> "lo", priority |-> 5, start |-> 10, end |-> 11]>>
PoolDup ==
        <<[name |-> 0, evr |-> 0, arch |-> 0, repo |-> 0, buildtime |-> 0],
          [name |-> 1, evr |-> 5, arch |-> 3, repo |-> 1, buildtime |-> 1],
          [name |-> 1, evr |-> 6, arch |-> 3, repo |-> 1, buildtime |-> 2],
          [name |-> 1, evr |-> 6, arch |-> 4, repo |-> 1, buildtime |-> 2],
          [name |-> 1, evr |-> 5, arch |-> 4, repo |-> 1, buildtime |-> 1],
          [name |-> 1, evr |-> 7, arch |-> 3, repo |-> 1, buildtime |-> 3],
          [name |-> 2, evr |-> 5, arch |-> 4, repo |-> 1, buildtime |-> 1],
          [name |-> 2, evr |-> 5, arch |-> 4, repo |-> 1, buildtime |-> 1],
          [name |-> 1, evr |-> 7, arch |-> 4, repo |-> 2, buildtime |-> 3],
          [name |-> 1, evr |-> 7, arch |-> 3, repo |-> 3, buildtime |-> 3]>>

\* A pool with no repo: only the system solvable.
ReposEmpty == <<>>
PoolEmpty == <<[name |-> 0, evr |-> 0, arch |-> 0, repo |-> 0, buildtime |-> 0]>>

\* dnf_sack_get_pool(sack): the repos and the solvables of the sack's pool.
Repos ==
    CASE sack.pool = "dup" -> ReposDup
      [] sack.pool = "empty" -> ReposEmpty
      [] OTHER -> ReposBase
Pool ==
    CASE sack.pool = "dup" -> PoolDup
      [] sack.pool = "empty" -> PoolEmpty
      [] OTHER -> PoolBase

Solvables == DOMAIN Pool

\* FOR_PKG_SOLVABLES: the real package solvables (those that sit in a repo).
PkgSolvables == {p \in Solvables : Pool[p].repo # 0}

\* pool_evrcmp(pool, a, b, EVRCMP_COMPARE) on interned evr ids.
pool_evrcmp(a, b) == IF a < b THEN -1 ELSE IF a > b THEN 1 ELSE 0

\* The sack's modular excludes (fixed: b-2-1 of lo in the first pool, none
\* in the others) and the regular excludes it can be given.
ModuleExcludes == IF sack.pool = "base" THEN {8} ELSE {}
ExcludeChoices == {{}, {3, 4}}

QueryFlags == {"APPLY_EXCLUDES", "IGNORE_EXCLUDES"}

\* dnf_sack_recompute_considered_map(sack, &map, flags): the considered map for
\* an exclude mode; NULL when nothing is excluded under that mode.
RecomputeConsideredMap(flags, excl) ==
    LET out == (IF flags \in {"APPLY_EXCLUDES", "IGNORE_MODULAR_EXCLUDES"} THEN excl ELSE {})
               \cup (IF flags \in {"APPLY_EXCLUDES", "IGNORE_REGULAR_EXCLUDES"}
                     THEN ModuleExcludes ELSE {})
    IN  IF out = {} THEN NullMap ELSE MapOf(Solvables \ out)

\* dnf_sack_recompute_considered(sack): pool->considered from all excludes.
RecomputeConsidered(excl) == RecomputeConsideredMap("APPLY_EXCLUDES", excl)

\* map_and(result, map) for a nullable map: a NULL map leaves the set alone.
AndNullable(S, m) == IF m.null THEN S ELSE S \cap m.map

-----------------------------------------------------------------------------
(* Strings and their matching (libc / hy-util helpers).                    *)

\* pool_id2str(pool, id) for the name and arch ids.
pool_id2str(id) ==
    CASE id = 1 -> "a"
      [] id = 2 -> "b"
      [] id = 3 -> "x86_64"
      [] id = 4 -> "noarch"
      [] OTHER -> ""

\* hy_is_glob_pattern(s): s holds one of the characters * ? [
hy_is_glob_pattern(s) == s \in {"*", "a*", "[ab]"}

\* fnmatch(pattern, s, 0) == 0
fnmatch(pattern, s) ==
    CASE pattern = "*" -> TRUE
      [] pattern = "a*" -> s \in {"a"}
      [] pattern = "[ab]" -> s \in {"a", "b"}
      [] OTHER -> pattern = s

\* tolower() of a whole string
ToLower(s) == CASE s = "A" -> "a" [] s = "B" -> "b" [] OTHER -> s

\* strstr(s, sub) != NULL
strstr(s, sub) ==
    \/ s = sub
    \/ sub = ""
    \/ sub = "86" /\ s = "x86_64"
    \/ sub = "arch" /\ s = "noarch"

-----------------------------------------------------------------------------
(* Filters: keyname tables and validation (query.cpp 245-377).             *)

HY_EQ == {"EQ"}
HY_NEQ == {"EQ", "NOT"}
HY_GLOB == {"GLOB"}
HY_LT == {"LT"}
HY_GT == {"GT"}
HY_SUBSTR == {"SUBSTR"}

DNF_ERROR_BAD_QUERY == "BAD_QUERY"
DNF_ERROR_BAD_SELECTOR == "BAD_SELECTOR"
OK == "OK"

match_type_num(keyname) ==
    keyname \in {"HY_PKG_EMPTY", "HY_PKG_EPOCH", "HY_PKG_LATEST", "HY_PKG_LATEST_PER_ARCH",
                 "HY_PKG_LATEST_PER_ARCH_BY_PRIORITY", "HY_PKG_UPGRADABLE", "HY_PKG_UPGRADES",
                 "HY_PKG_UPGRADES_BY_PRIORITY", "HY_PKG_DOWNGRADABLE", "HY_PKG_DOWNGRADES"}

match_type_pkg(keyname) ==
    keyname \in {"HY_PKG", "HY_PKG_OBSOLETES", "HY_PKG_OBSOLETES_BY_PRIORITY"}

match_type_reldep(keyname) ==
    keyname \in {"HY_PKG_CONFLICTS", "HY_PKG_ENHANCES", "HY_PKG_OBSOLETES", "HY_PKG_PROVIDES",
                 "HY_PKG_RECOMMENDS", "HY_PKG_REQUIRES", "HY_PKG_SUGGESTS",
                 "HY_PKG_SUPPLEMENTS"}

match_type_str(keyname) ==
    keyname \in {"HY_PKG_ADVISORY", "HY_PKG_ADVISORY_BUG", "HY_PKG_ADVISORY_CVE",
                 "HY_PKG_ADVISORY_SEVERITY", "HY_PKG_ADVISORY_TYPE", "HY_PKG_ARCH",
                 "HY_PKG_DESCRIPTION", "HY_PKG_ENHANCES", "HY_PKG_EVR", "HY_PKG_FILE",
                 "HY_PKG_LOCATION", "HY_PKG_NAME", "HY_PKG_NEVRA", "HY_PKG_NEVRA_STRICT",
                 "HY_PKG_PROVIDES", "HY_PKG_RECOMMENDS", "HY_PKG_RELEASE", "HY_PKG_REPONAME",
                 "HY_PKG_REQUIRES", "HY_PKG_SOURCERPM", "HY_PKG_SUGGESTS", "HY_PKG_SUMMARY",
                 "HY_PKG_SUPPLEMENTS", "HY_PKG_OBSOLETES", "HY_PKG_CONFLICTS", "HY_PKG_URL",
                 "HY_PKG_VERSION"}

valid_filter_str(keyname, cmp_type) ==
    LET c == cmp_type \ {"NOT"}
    IN  /\ match_type_str(keyname)
        /\ CASE keyname \in {"HY_PKG_LOCATION", "HY_PKG_SOURCERPM", "HY_PKG_NEVRA_STRICT"} ->
                    c = HY_EQ
             [] keyname = "HY_PKG_ARCH" -> "EQ" \in c \/ "GLOB" \in c
             [] keyname = "HY_PKG_NAME" -> "EQ" \in c \/ "GLOB" \in c \/ "SUBSTR" \in c
             [] OTHER -> TRUE

valid_filter_num(keyname, cmp_type) ==
    LET c == cmp_type \ {"NOT"}
    IN  /\ match_type_num(keyname)
        /\ c \cap {"ICASE", "SUBSTR", "GLOB"} = {}
        /\ (keyname = "HY_PKG" => c = HY_EQ)

valid_filter_pkg(keyname, cmp_type) ==
    /\ match_type_pkg(keyname) \/ match_type_reldep(keyname)
    /\ cmp_type = HY_EQ \/ cmp_type = HY_NEQ

valid_filter_reldep(keyname) == match_type_reldep(keyname)

\* Filter::Filter(...): one filter with its single match, by match type.
FilterNum(keyname, cmp_type, match) ==
    [keyname |-> keyname, cmp_type |-> cmp_type, match_type |-> "_HY_NUM",
     num |-> match, str |-> "", pset |-> {}, reldep |-> {}]
FilterStr(keyname, cmp_type, match) ==
    [keyname |-> keyname, cmp_type |-> cmp_type, match_type |-> "_HY_STR",
     num |-> 0, str |-> match, pset |-> {}, reldep |-> {}]
FilterPkg(keyname, cmp_type, pset) ==
    [keyname |-> keyname, cmp_type |-> cmp_type, match_type |-> "_HY_PKG",
     num |-> 0, str |-> "", pset |-> pset, reldep |-> {}]
FilterReldep(keyname, cmp_type, reldeps) ==
    [keyname |-> keyname, cmp_type |-> cmp_type, match_type |-> "_HY_RELDEP",
     num |-> 0, str |-> "", pset |-> {}, reldep |-> reldeps]

-----------------------------------------------------------------------------
(* Package sets and sorting.                                               *)

\* PackageSet::next(id): the next member above id, -1 at the end.
PsetNext(S, id) ==
    IF \E x \in S : x > id
    THEN CHOOSE x \in S : x > id /\ \A y \in S : y > id => x <= y
    ELSE -1

\* filter_latest_sortcmp, filter_latest_sortcmp_byarch and
\* filter_latest_sortcmp_byarch_bypriority: < 0 when a sorts before b.
filter_latest_sortcmp(keyname, a, b) ==
    LET sa == Pool[a]
        sb == Pool[b]
        byarch == keyname \in {"HY_PKG_LATEST_PER_ARCH", "HY_PKG_LATEST_PER_ARCH_BY_PRIORITY"}
        byprio == keyname = "HY_PKG_LATEST_PER_ARCH_BY_PRIORITY"
    IN  IF sa.name - sb.name # 0 THEN sa.name - sb.name
        ELSE IF byarch /\ sa.arch - sb.arch # 0 THEN sa.arch - sb.arch
        ELSE IF byprio /\ Repos[sb.repo].priority - Repos[sa.repo].priority # 0
             THEN Repos[sb.repo].priority - Repos[sa.repo].priority
        ELSE IF pool_evrcmp(sb.evr, sa.evr) # 0 THEN pool_evrcmp(sb.evr, sa.evr)
        ELSE a - b

\* solv_sort of the ids of S with one of the comparators above (a total order).
RECURSIVE solv_sort(_, _)
solv_sort(keyname, S) ==
    IF S = {} THEN <<>>
    ELSE LET first == CHOOSE x \in S :
                          \A y \in S \ {x} : filter_latest_sortcmp(keyname, x, y) < 0
         IN  <<first>> \o solv_sort(keyname, S \ {first})

-----------------------------------------------------------------------------
(* Filter evaluators (query.cpp 1229-2218): each gives the match map m.    *)

\* The dependency that the running kernel of the large pool provides and
\* a-1-1.noarch requires (an id of its own among the interned ids).
KernelDep == 8

\* The provides of a solvable: every package provides its own name; in the
\* large pool the running kernel provides KernelDep and the two b-1-1
\* provide the name a as well.
Provides(p) ==
    {Pool[p].name}
    \cup (IF sack.pool # "dup" THEN {}
          ELSE IF p = ReposDup[1].start + 1 THEN {KernelDep}
          ELSE IF Pool[p].name = pool_str2id("b") THEN {pool_str2id("a")}
          ELSE {})

\* FOR_PROVIDES(p, pp, r_id): the packages providing a reldep.
WhatProvides(r_id) == {p \in PkgSolvables : r_id \in Provides(p)}

filterPkg(f) == f.pset

filterName(f, R) ==
    LET cmpType == f.cmp_type
        match == f.str
    IN  IF "EQ" \in cmpType /\ "ICASE" \notin cmpType
        THEN LET match_name_id == pool_str2id(match)
             IN  IF match_name_id = 0 THEN {}
                 ELSE {id \in R : Pool[id].name = match_name_id}
        ELSE {id \in R :
                LET name == pool_id2str(Pool[id].name)
                IN  IF "ICASE" \in cmpType
                    THEN IF "SUBSTR" \in cmpType THEN strstr(ToLower(name), ToLower(match))
                         ELSE IF "EQ" \in cmpType THEN ToLower(name) = ToLower(match)
                         ELSE IF "GLOB" \in cmpType THEN fnmatch(ToLower(match), ToLower(name))
                         ELSE FALSE
                    ELSE IF "GLOB" \in cmpType THEN fnmatch(match, name)
                         ELSE IF "SUBSTR" \in cmpType THEN strstr(name, match)
                         ELSE FALSE}

filterArch(f, R) ==
    LET cmp_type == f.cmp_type
        match == f.str
        match_arch_id == pool_str2id(match)
    IN  IF "EQ" \in cmp_type
        THEN IF match_arch_id = 0 THEN {}
             ELSE {id \in R : Pool[id].arch = match_arch_id}
        ELSE IF "GLOB" \in cmp_type
             THEN {id \in R : fnmatch(match, pool_id2str(Pool[id].arch))}
             ELSE {}

filterProvidesReldep(f) == UNION {WhatProvides(r_id) : r_id \in f.reldep}

\* add_latest_to_map: positions pos .. stop_block-1 of the block.
RECURSIVE add_latest_loop(_, _, _, _, _, _, _)
add_latest_loop(m, samename, pos, stop_block, latest, version_counter, id_previous_evr) ==
    IF pos >= stop_block THEN m
    ELSE LET id_element == samename[pos]
             id_current_evr == Pool[id_element].evr
             counter == IF id_previous_evr # id_current_evr
                        THEN version_counter + 1 ELSE version_counter
         IN  IF latest > 0
             THEN IF ~(counter < latest) THEN m
                  ELSE add_latest_loop(m \cup {id_element}, samename, pos + 1, stop_block,
                                       latest, counter, id_current_evr)
             ELSE IF counter < -latest
                  THEN add_latest_loop(m, samename, pos + 1, stop_block, latest, counter,
                                       id_current_evr)
                  ELSE add_latest_loop(m \cup {id_element}, samename, pos + 1, stop_block,
                                       latest, counter, id_current_evr)

\* add_latest_to_map with "version_counter <= -latest" in the branch of a
\* negative latest: one evr more is skipped.
add_latest_skip_more(m, samename, start_block, stop_block, latest) ==
    add_latest_loop(m, samename, start_block, stop_block,
                    IF latest < 0 THEN latest - 1 ELSE latest, 0,
                    Pool[samename[start_block]].evr)

add_latest_to_map(m, samename, start_block, stop_block, latest) ==
    add_latest_loop(m, samename, start_block, stop_block, latest, 0,
                    Pool[samename[start_block]].evr)

\* The block loop of filterLatest.  Positions are 1-based; start_block 0 is
\* the code's -1 and highest 0 its null pointer.
RECURSIVE filterLatestLoop(_, _, _, _, _, _, _, _)
filterLatestLoop(keyname, samename, latest, i, highest, make_block, start_block, m) ==
    IF i > Len(samename)
    THEN IF start_block # 0 /\ make_block
         THEN add_latest_to_map(m, samename, start_block, i, latest)
         ELSE m
    ELSE LET p == samename[i]
             byarch == keyname \in {"HY_PKG_LATEST_PER_ARCH",
                                    "HY_PKG_LATEST_PER_ARCH_BY_PRIORITY"}
         IN  IF \/ highest = 0
                \/ Pool[highest].name # Pool[p].name
                \/ byarch /\ Pool[highest].arch # Pool[p].arch
             THEN IF start_block = 0
                  THEN filterLatestLoop(keyname, samename, latest, i + 1, p, make_block, i, m)
                  ELSE IF make_block
                       THEN filterLatestLoop(keyname, samename, latest, i + 1, p, make_block, i,
                                add_latest_to_map(m, samename, start_block, i, latest))
                       ELSE filterLatestLoop(keyname, samename, latest, i + 1, p, TRUE, i, m)
             ELSE IF /\ keyname = "HY_PKG_LATEST_PER_ARCH_BY_PRIORITY"
                     /\ Repos[Pool[highest].repo].priority # Repos[Pool[p].repo].priority
                     /\ make_block
                  THEN filterLatestLoop(keyname, samename, latest, i + 1, highest, FALSE,
                           start_block, add_latest_to_map(m, samename, start_block, i, latest))
                  ELSE filterLatestLoop(keyname, samename, latest, i + 1, highest, make_block,
                           start_block, m)

filterLatestNum(keyname, latest, R) ==
    IF latest = 0 THEN {}
    ELSE filterLatestLoop(keyname, solv_sort(keyname, R), latest, 1, 0, TRUE, 0, {})

filterLatest(f, R) == filterLatestNum(f.keyname, f.num, R)

\* what_upgrades(pool, pkg): the installed solvable of the highest evr that
\* pkg, of the same name and a matching arch, upgrades; 0 when a solvable of
\* that name is installed with pkg's evr or a higher one, or none is.
what_upgrades(pkg) ==
    LET updated == {p \in WhatProvides(Pool[pkg].name) :
                       /\ Pool[p].repo = installed /\ Pool[p].name = Pool[pkg].name
                       /\ \/ Pool[p].arch = Pool[pkg].arch
                          \/ pool_id2str(Pool[p].arch) = "noarch"
                          \/ pool_id2str(Pool[pkg].arch) = "noarch"}
    IN  IF updated = {} \/ \E p \in updated : pool_evrcmp(Pool[p].evr, Pool[pkg].evr) >= 0
        THEN 0
        ELSE CHOOSE l \in updated :
                 /\ \A p \in updated : pool_evrcmp(Pool[p].evr, Pool[l].evr) <= 0
                 /\ \A p \in updated : Pool[p].evr = Pool[l].evr => l <= p

\* what_downgrades(pool, pkg): the installed solvable of the lowest evr that
\* pkg, of the same name and arch, downgrades; 0 when a solvable of that
\* name and arch is installed with pkg's evr or a lower one, or none is.
what_downgrades(pkg) ==
    LET updated == {p \in WhatProvides(Pool[pkg].name) :
                       /\ Pool[p].repo = installed /\ Pool[p].name = Pool[pkg].name
                       /\ Pool[p].arch = Pool[pkg].arch}
    IN  IF updated = {} \/ \E p \in updated : pool_evrcmp(Pool[p].evr, Pool[pkg].evr) <= 0
        THEN 0
        ELSE CHOOSE l \in updated :
                 /\ \A p \in updated : pool_evrcmp(Pool[p].evr, Pool[l].evr) >= 0
                 /\ \A p \in updated : Pool[p].evr = Pool[l].evr => l <= p

\* Query::Impl::filterUpdownAble: the solvables of result R that a solvable
\* outside the installed repo upgrades (downgrades); the candidates are those
\* that pool->considered (under APPLY_EXCLUDES) or the Query's
\* considered_cached (under the other modes) does not leave out.
filterUpdownAble(qr, cons, f, R) ==
    LET seen(p) == IF qr.flags = "APPLY_EXCLUDES"
                   THEN cons.null \/ p \in cons.map
                   ELSE qr.considered_cached.null \/ p \in qr.considered_cached.map
        what(p) == IF f.keyname = "HY_PKG_DOWNGRADABLE" THEN what_downgrades(p)
                   ELSE what_upgrades(p)
    IN  IF installed = 0 \/ f.num = 0 THEN {}
        ELSE {what(p) : p \in {x \in PkgSolvables : seen(x) /\ Pool[x].repo # installed}}
             \cap R

\* The switch of Query::Impl::apply: the match map of one filter on result R.
FilterMatch(qr, cons, f, R) ==
    CASE f.keyname = "HY_PKG" -> filterPkg(f)
      [] f.keyname \in {"HY_PKG_ALL", "HY_PKG_EMPTY"} -> {}
      [] f.keyname = "HY_PKG_NAME" -> filterName(f, R)
      [] f.keyname = "HY_PKG_ARCH" -> filterArch(f, R)
      [] f.keyname = "HY_PKG_PROVIDES" -> filterProvidesReldep(f)
      [] f.keyname \in {"HY_PKG_LATEST", "HY_PKG_LATEST_PER_ARCH",
                        "HY_PKG_LATEST_PER_ARCH_BY_PRIORITY"} -> filterLatest(f, R)
      [] f.keyname \in {"HY_PKG_DOWNGRADABLE", "HY_PKG_UPGRADABLE"} ->
            filterUpdownAble(qr, cons, f, R)
      [] OTHER -> {}

\* One round of the loop of apply: map_subtract under HY_NOT, else map_and.
ApplyFilter(qr, cons, f, R) ==
    IF "NOT" \in f.cmp_type THEN R \ FilterMatch(qr, cons, f, R)
    ELSE R \cap FilterMatch(qr, cons, f, R)

\* The filter loop of apply that takes the filters from the last added to
\* the first.
RECURSIVE ApplyFilters_backwards(_, _, _, _)
ApplyFilters_backwards(qr, cons, filters, R) ==
    IF filters = <<>> THEN R
    ELSE ApplyFilter(qr, cons, Head(filters),
                     ApplyFilters_backwards(qr, cons, Tail(filters), R))

RECURSIVE ApplyFilters(_, _, _, _)
ApplyFilters(qr, cons, filters, R) ==
    IF filters = <<>> THEN R
    ELSE ApplyFilters(qr, cons, Tail(filters), ApplyFilter(qr, cons, Head(filters), R))

-----------------------------------------------------------------------------
(* Query operations (query.cpp 845-1072, 1203-1227, 2301-2721).  Each takes *)
(* the Query record and pool->considered and gives both back, as apply may *)
(* recompute the considered map.                                           *)

\* The Query under test and the Query handed to its set operations.
Queries == {"q", "other"}

\* Query::Impl::Impl(sack, flags)
NewQuery(flags) ==
    [applied |-> FALSE, flags |-> flags, result |-> NullMap, filters |-> <<>>,
     considered_cached |-> NullMap]

\* Query::Impl::Impl(const Query::Impl &): considered_cached is not copied.
CopyQuery(src) ==
    [applied |-> src.applied, flags |-> src.flags, result |-> src.result,
     filters |-> src.filters, considered_cached |-> NullMap]

\* Query::Impl::operator=: considered_cached of the target is left as it is.
AssignQuery(dst, src) ==
    [applied |-> src.applied, flags |-> src.flags, result |-> src.result,
     filters |-> src.filters, considered_cached |-> dst.considered_cached]

QS(qr, cons) == [q |-> qr, considered |-> cons]

\* initResult without the map_and with the considered map.
initResult_unfiltered(qr, cons) ==
    QS([qr EXCEPT !.result = MapOf(PkgSolvables)], cons)

\* Query::Impl::initResult
initResult(qr, cons) ==
    IF qr.flags = "APPLY_EXCLUDES"
    THEN LET c == RecomputeConsidered(excludes)
         IN  QS([qr EXCEPT !.result = MapOf(AndNullable(PkgSolvables, c))], c)
    ELSE LET c == RecomputeConsideredMap(qr.flags, excludes)
         IN  QS([qr EXCEPT !.result = MapOf(AndNullable(PkgSolvables, c)),
                           !.considered_cached = c], cons)

\* apply without its "if (applied) return" and with an unconditional initResult.
apply_again(qr, cons) ==
    LET st == initResult(qr, cons)
    IN  QS([st.q EXCEPT !.result = MapOf(ApplyFilters(st.q, st.considered, st.q.filters,
                                                         st.q.result.map)),
                        !.applied = TRUE,
                        !.filters = <<>>],
           st.considered)

\* apply that calls initResult whenever the query is not applied.
apply_reinit(qr, cons) ==
    IF qr.applied THEN QS(qr, cons)
    ELSE LET st == initResult(qr, cons)
         IN  QS([st.q EXCEPT !.result = MapOf(ApplyFilters(st.q, st.considered, st.q.filters,
                                                         st.q.result.map)),
                             !.applied = TRUE,
                             !.filters = <<>>],
                st.considered)

\* Query::Impl::apply
apply(qr, cons) ==
    IF qr.applied THEN QS(qr, cons)
    ELSE LET filtered(st) ==
                 QS([st.q EXCEPT !.result = MapOf(ApplyFilters(st.q, st.considered, st.q.filters,
                                                         st.q.result.map)),
                                 !.applied = TRUE,
                                 !.filters = <<>>],
                    st.considered)
         IN  filtered(IF qr.result.null THEN initResult(qr, cons) ELSE QS(qr, cons))

\* addFilter(num) that clears the applied bit before it validates.
addFilterNum_early(qr, keyname, cmp_type, match) ==
    IF ~valid_filter_num(keyname, cmp_type)
    THEN [rc |-> DNF_ERROR_BAD_QUERY, q |-> [qr EXCEPT !.applied = FALSE]]
    ELSE [rc |-> OK,
          q |-> [qr EXCEPT !.applied = FALSE,
                           !.filters = Append(@, FilterNum(keyname, cmp_type, match))]]

\* Query::addFilter(int keyname, int cmp_type, int match)
addFilterNum(qr, keyname, cmp_type, match) ==
    IF ~valid_filter_num(keyname, cmp_type)
    THEN [rc |-> DNF_ERROR_BAD_QUERY, q |-> qr]
    ELSE [rc |-> OK,
          q |-> [qr EXCEPT !.applied = FALSE,
                           !.filters = Append(@, FilterNum(keyname, cmp_type, match))]]

\* Query::addFilter(int keyname, int cmp_type, const DnfPackageSet *pset)
addFilterPkg(qr, keyname, cmp_type, pset) ==
    IF ~valid_filter_pkg(keyname, cmp_type)
    THEN [rc |-> DNF_ERROR_BAD_QUERY, q |-> qr]
    ELSE [rc |-> OK,
          q |-> [qr EXCEPT !.applied = FALSE,
                           !.filters = Append(@, FilterPkg(keyname, cmp_type, pset))]]

\* Query::addFilter(int keyname, const Dependency * reldep)
addFilterReldep(qr, keyname, reldep) ==
    IF ~valid_filter_reldep(keyname)
    THEN [rc |-> DNF_ERROR_BAD_QUERY, q |-> qr]
    ELSE [rc |-> OK,
          q |-> [qr EXCEPT !.applied = FALSE,
                           !.filters = Append(@, FilterReldep(keyname, HY_EQ, {reldep}))]]

\* Query::addFilter(int keyname, const DependencyContainer * reldeplist)
addFilterReldepList(qr, keyname, reldeplist) ==
    IF ~valid_filter_reldep(keyname)
    THEN [rc |-> DNF_ERROR_BAD_QUERY, q |-> qr]
    ELSE [rc |-> OK,
          q |-> [qr EXCEPT !.applied = FALSE,
                           !.filters = Append(@, IF reldeplist # {}
                                                 THEN FilterReldep(keyname, HY_EQ, reldeplist)
                                                 ELSE FilterNum("HY_PKG_EMPTY", HY_EQ, 1))]]

\* DependencyContainer::addReldepWithGlob(match): the reldeps whose name matches.
ReldepsWithGlob(match) ==
    {Pool[p].name : p \in {x \in PkgSolvables : fnmatch(match, pool_id2str(Pool[x].name))}}

\* NevraID::parse for the NEVRA strings of the model: the (name, evr, arch)
\* ids, name 0 when the string does not parse or names unknown strings.
NevraParse(nevraPattern) ==
    CASE nevraPattern = "a-2-1.x86_64" -> [name |-> 1, evr |-> 6, arch |-> 3]
      [] nevraPattern = "b-1-1.noarch" -> [name |-> 2, evr |-> 5, arch |-> 4]
      [] OTHER -> [name |-> 0, evr |-> 0, arch |-> 0]

\* Query::Impl::filterNevraStrict with one match, on the applied result.
filterNevraStrict(qr, cmpType, match) ==
    LET nevraId == NevraParse(match)
        R == qr.result.map
        nevraResult ==
            {id \in R :
                /\ nevraId.name = Pool[id].name
                /\ nevraId.arch = Pool[id].arch
                /\ IF "LT" \in cmpType \/ "GT" \in cmpType
                   THEN LET cmp == pool_evrcmp(Pool[id].evr, nevraId.evr)
                        IN  \/ cmp > 0 /\ "GT" \in cmpType
                            \/ cmp < 0 /\ "LT" \in cmpType
                            \/ cmp = 0 /\ "EQ" \in cmpType
                   ELSE nevraId.evr = Pool[id].evr}
    IN  IF nevraId.name = 0
        THEN IF "NOT" \notin cmpType THEN [qr EXCEPT !.result = MapOf({})] ELSE qr
        ELSE IF "NOT" \in cmpType
             THEN [qr EXCEPT !.result = MapOf(R \ nevraResult)]
             ELSE [qr EXCEPT !.result = MapOf(R \cap nevraResult)]

\* Query::addFilter(int keyname, int cmp_type, const char *match); gives the
\* return code, the Query and pool->considered (NEVRA_STRICT applies at once).
addFilterStr(qr, cons, keyname, cmp_type_in, match) ==
    IF keyname = "HY_PKG_NEVRA_STRICT"
    THEN IF ~("EQ" \in cmp_type_in \/ "GT" \in cmp_type_in \/ "LT" \in cmp_type_in)
         THEN [rc |-> DNF_ERROR_BAD_QUERY, q |-> qr, considered |-> cons]
         ELSE LET strict(st) ==
                      [rc |-> OK, q |-> filterNevraStrict(st.q, cmp_type_in, match),
                       considered |-> st.considered]
              IN  strict(apply(qr, cons))
    ELSE LET cmp_type == IF "GLOB" \in cmp_type_in /\ ~hy_is_glob_pattern(match)
                         THEN (cmp_type_in \ {"GLOB"}) \cup {"EQ"}
                         ELSE cmp_type_in
             opened == [qr EXCEPT !.applied = FALSE]
         IN  IF ~valid_filter_str(keyname, cmp_type)
             THEN [rc |-> DNF_ERROR_BAD_QUERY, q |-> qr, considered |-> cons]
             ELSE IF match_type_reldep(keyname)
             THEN LET r == IF cmp_type = HY_GLOB
                           THEN IF ReldepsWithGlob(match) = {}
                                THEN addFilterNum(opened, "HY_PKG_EMPTY", HY_EQ, 1)
                                ELSE addFilterReldepList(opened, keyname, ReldepsWithGlob(match))
                           ELSE IF pool_str2id(match) = 0
                                THEN addFilterNum(opened, "HY_PKG_EMPTY", HY_EQ, 1)
                                ELSE addFilterReldep(opened, keyname, pool_str2id(match))
                  IN  [rc |-> r.rc, q |-> r.q, considered |-> cons]
             ELSE [rc |-> OK,
                   q |-> [opened EXCEPT
                            !.filters = Append(@, FilterStr(keyname, cmp_type, match))],
                   considered |-> cons]

-----------------------------------------------------------------------------
(* Reducers and set algebra (query.cpp 2441-2721).                         *)

\* The loop shared by installed() and available(): walks the result upwards
\* from the installed repo's start and collects its solvables, stopping at
\* the first foreign solvable at or beyond the repo's end.
RECURSIVE installedScan(_, _, _)
installedScan(R, pkgId, found) ==
    IF pkgId = -1 THEN found
    ELSE IF Pool[pkgId].repo = installed
         THEN installedScan(R, PsetNext(R, pkgId), found \cup {pkgId})
         ELSE IF pkgId < Repos[installed].end
              THEN installedScan(R, PsetNext(R, pkgId), found)
              ELSE found

installedScanStart(R) ==
    LET start == Repos[installed].start
    IN  installedScan(R, IF start \in R THEN start ELSE PsetNext(R, start), {})

\* installed() without the branch for a pool that has no installed repo.
queryInstalled_norepo(qr, cons) ==
    LET st == apply(qr, cons)
        R == st.q.result.map
    IN  IF installed = 0 THEN st
        ELSE QS([st.q EXCEPT !.result = MapOf(R \cap installedScanStart(R))], st.considered)

\* Query::installed
queryInstalled(qr, cons) ==
    LET scan(st) ==
            IF installed = 0
            THEN QS([st.q EXCEPT !.result = MapOf({})], st.considered)
            ELSE QS([st.q EXCEPT !.result =
                        MapOf(st.q.result.map \cap installedScanStart(st.q.result.map))],
                    st.considered)
    IN  scan(apply(qr, cons))

\* Query::available
queryAvailable(qr, cons) ==
    LET scan(st) ==
            IF installed = 0
            THEN st
            ELSE QS([st.q EXCEPT !.result =
                        MapOf(st.q.result.map \ installedScanStart(st.q.result.map))],
                    st.considered)
    IN  scan(apply(qr, cons))

\* Query::queryUnion / queryIntersection / queryDifference: both queries are
\* applied, then the set operation is made on this query's result.
querySetOp(op, qr, other, cons) ==
    LET combine(st, so) ==
            LET A == st.q.result.map
                B == so.q.result.map
                R == CASE op = "queryUnion" -> A \cup B
                       [] op = "queryIntersection" -> A \cap B
                       [] op = "queryDifference" -> A \ B
            IN  [q |-> [st.q EXCEPT !.result = MapOf(R)], other |-> so.q,
                 considered |-> so.considered]
        applyOther(st) == combine(st, apply(other, st.considered))
    IN  applyOther(apply(qr, cons))

\* Query::filterExtras
queryFilterExtras(qr, cons) ==
    LET extras(st, query_installed, query_available) ==
            LET resultInstalled == query_installed.q.result.map
                resultAvailable == query_available.q.result.map
            IN  QS([st.q EXCEPT !.result =
                       MapOf({i \in resultInstalled :
                                 ~\E a \in resultAvailable :
                                     /\ Pool[a].name = Pool[i].name
                                     /\ Pool[a].arch = Pool[i].arch})],
                   query_available.considered)
        withInstalled(st, query_installed) ==
            IF query_installed.q.result.map = {}
            THEN QS([st.q EXCEPT !.result = MapOf({})], query_installed.considered)
            ELSE extras(st, query_installed,
                        queryAvailable(NewQuery("IGNORE_REGULAR_EXCLUDES"),
                                       query_installed.considered))
        applied(st) == withInstalled(st, queryInstalled(CopyQuery(st.q), st.considered))
    IN  applied(apply(qr, cons))

\* Query::filterRecent
queryFilterRecent(qr, cons, recent_limit) ==
    LET recent(st) ==
            QS([st.q EXCEPT !.result =
                   MapOf({id \in st.q.result.map : ~(Pool[id].buildtime <= recent_limit)})],
               st.considered)
    IN  recent(apply(qr, cons))

\* add_duplicates_to_map that pairs two solvables only when their evrs
\* differ.
add_duplicates_to_map_evr(res, samename, start_block, stop_block) ==
    res \cup UNION {{samename[pos], samename[pos2]} :
                       <<pos, pos2>> \in {pr \in (start_block .. stop_block - 1)
                                                 \X (start_block .. stop_block - 1) :
                           /\ pr[1] < pr[2]
                           /\ Pool[samename[pr[1]]].evr # Pool[samename[pr[2]]].evr}}

\* add_duplicates_to_map over positions start_block .. stop_block-1.
add_duplicates_to_map(res, samename, start_block, stop_block) ==
    res \cup UNION {{samename[pos], samename[pos2]} :
                       <<pos, pos2>> \in {pr \in (start_block .. stop_block - 1)
                                                 \X (start_block .. stop_block - 1) :
                           /\ pr[1] < pr[2]
                           /\ ~(/\ Pool[samename[pr[1]]].evr = Pool[samename[pr[2]]].evr
                                /\ Pool[samename[pr[1]]].arch # Pool[samename[pr[2]]].arch)}}

\* The block loop of filterDuplicated (1-based; start_block 0 is the code's -1).
RECURSIVE filterDuplicatedLoop(_, _, _, _, _)
filterDuplicatedLoop(samename, i, highest, start_block, res) ==
    IF i > Len(samename)
    THEN IF start_block # 0 THEN add_duplicates_to_map(res, samename, start_block, i) ELSE res
    ELSE LET p == samename[i]
         IN  IF highest = 0 \/ Pool[highest].name # Pool[p].name
             THEN IF start_block = 0
                  THEN filterDuplicatedLoop(samename, i + 1, p, i, res)
                  ELSE IF start_block # i - 1
                       THEN filterDuplicatedLoop(samename, i + 1, p, i,
                                add_duplicates_to_map(res, samename, start_block, i))
                       ELSE filterDuplicatedLoop(samename, i + 1, p, i, res)
             ELSE filterDuplicatedLoop(samename, i + 1, highest, start_block, res)

\* Query::filterDuplicated
queryFilterDuplicated(qr, cons) ==
    LET duplicated(st) ==
            QS([st.q EXCEPT !.result =
                   MapOf(filterDuplicatedLoop(solv_sort("HY_PKG_LATEST", st.q.result.map),
                                              1, 0, 0, {}))],
               st.considered)
    IN  duplicated(queryInstalled(qr, cons))

-----------------------------------------------------------------------------
(* Selector lowering (Goal.cpp 231-512).                                   *)

\* A solver job tuple: the flags (selection mode, modifiers, action) and the
\* target: an id, a package list (SOLVABLE_ONE_OF) or a relation built by
\* pool_rel2id from a name id with an arch and/or evr id.
JobTuple(how, id) == [how |-> how, id |-> id, pkgs |-> {}, arch |-> 0, evr |-> 0]
JobTupleOneOf(how, pkgs) == [how |-> how, id |-> 0, pkgs |-> pkgs, arch |-> 0, evr |-> 0]

SOLVER_SELECTMASK ==
    {"SOLVER_SOLVABLE", "SOLVER_SOLVABLE_NAME", "SOLVER_SOLVABLE_PROVIDES",
     "SOLVER_SOLVABLE_ONE_OF", "SOLVER_SOLVABLE_REPO", "SOLVER_SOLVABLE_ALL"}

\* The filters of a Selector; set is FALSE for a filter that was not given.
NoFilter == [set |-> FALSE, keyname |-> "", cmp_type |-> {}, matches |-> <<>>]
SltrFilter(keyname, cmp_type, matches) ==
    [set |-> TRUE, keyname |-> keyname, cmp_type |-> cmp_type, matches |-> matches]

NoSelector ==
    [pkgs |-> {}, name |-> NoFilter, provides |-> NoFilter, file |-> NoFilter,
     arch |-> NoFilter, evr |-> NoFilter, reponame |-> NoFilter]

NO_MATCH == "NO_MATCH"
MULTIPLE_MATCH_OBJECTS == "MULTIPLE_MATCH_OBJECTS"
INCORECT_COMPARISON_TYPE == "INCORECT_COMPARISON_TYPE"
ASSERT_FAILED == "ASSERT_FAILED"

JR(ret, job) == [ret |-> ret, job |-> job]

\* filterPkgToJob
filterPkgToJob(what, job) ==
    IF what = {} THEN JR(OK, job)
    ELSE JR(OK, Append(job, JobTupleOneOf({"SOLVER_SOLVABLE_ONE_OF", "SOLVER_SETARCH",
                                           "SOLVER_SETEVR"}, what)))

\* The name ids a dataiterator finds for a glob, one per package solvable in
\* id order (jobHas compares with the keyname SOLVABLE_NAME, not the flag
\* SOLVER_SOLVABLE_NAME, so it never finds a tuple already pushed).
RECURSIVE globNameTuples(_, _)
globNameTuples(name, p) ==
    IF p > Len(Pool) THEN <<>>
    ELSE IF Pool[p].repo # 0 /\ fnmatch(name, pool_id2str(Pool[p].name))
         THEN <<JobTuple({"SOLVER_SOLVABLE_NAME"}, Pool[p].name)>> \o globNameTuples(name, p + 1)
         ELSE globNameTuples(name, p + 1)

\* filterNameToJob
filterNameToJob(f, job) ==
    IF ~f.set THEN JR(OK, job)
    ELSE IF Len(f.matches) # 1 THEN JR(MULTIPLE_MATCH_OBJECTS, job)
    ELSE IF f.cmp_type = HY_EQ
         THEN IF pool_str2id(f.matches[1]) # 0
              THEN JR(OK, Append(job, JobTuple({"SOLVER_SOLVABLE_NAME"},
                                               pool_str2id(f.matches[1]))))
              ELSE JR(OK, job)
    ELSE IF f.cmp_type = HY_GLOB
         THEN JR(OK, job \o globNameTuples(f.matches[1], 1))
    ELSE JR(INCORECT_COMPARISON_TYPE, job)

\* selection_make(pool, job, file, SELECTION_FILELIST): the packages owning a
\* file; no package of the pool owns one, so nothing is selected.
filterFileToJob(f, job) ==
    IF ~f.set THEN JR(OK, job)
    ELSE IF Len(f.matches) # 1 THEN JR(MULTIPLE_MATCH_OBJECTS, job)
    ELSE JR(NO_MATCH, job)

\* filterProvidesToJob (the match of an EQ filter is a reldep, here by name)
filterProvidesToJob(f, job) ==
    IF ~f.set THEN JR(OK, job)
    ELSE IF Len(f.matches) # 1 THEN JR(MULTIPLE_MATCH_OBJECTS, job)
    ELSE IF f.cmp_type = HY_EQ
         THEN JR(OK, Append(job, JobTuple({"SOLVER_SOLVABLE_PROVIDES"},
                                          pool_str2id(f.matches[1]))))
    ELSE IF f.cmp_type = HY_GLOB
         THEN LET found == {p \in PkgSolvables : fnmatch(f.matches[1],
                                                        pool_id2str(Pool[p].name))}
              IN  IF found = {} THEN JR(ASSERT_FAILED, job)
                  ELSE JR(OK, Append(job, JobTuple({"SOLVER_SOLVABLE_PROVIDES"},
                              Pool[CHOOSE p \in found : \A x \in found : p <= x].name)))
    ELSE JR(INCORECT_COMPARISON_TYPE, job)

\* The rewrite loop of filterArchToJob and filterEvrToJob.  With assertions
\* compiled in, a tuple that is not SOLVABLE_NAME aborts; with NDEBUG the
\* tuple is rewritten whatever its selection mode.
jobRewrite(job, ndebug, Rewrite(_)) ==
    IF ~ndebug /\ \E i \in DOMAIN job :
                     job[i].how \cap SOLVER_SELECTMASK # {"SOLVER_SOLVABLE_NAME"}
    THEN JR(ASSERT_FAILED, job)
    ELSE JR(OK, [i \in DOMAIN job |-> Rewrite(job[i])])

\* filterArchToJob
filterArchToJob(f, job, ndebug) ==
    IF ~f.set THEN JR(OK, job)
    ELSE IF f.cmp_type # HY_EQ THEN JR(INCORECT_COMPARISON_TYPE, job)
    ELSE IF Len(f.matches) # 1 THEN JR(MULTIPLE_MATCH_OBJECTS, job)
    ELSE IF pool_str2id(f.matches[1]) \notin {3, 4} THEN JR(NO_MATCH, job)
    ELSE LET archid == pool_str2id(f.matches[1])
             SetArch(t) == [t EXCEPT !.how = @ \cup {"SOLVER_SETARCH"}, !.arch = archid]
         IN  jobRewrite(job, ndebug, SetArch)

\* filterEvrToJob (pool_str2id with create: an unknown evr gets a new id)
filterEvrToJob(f, job, ndebug) ==
    IF ~f.set THEN JR(OK, job)
    ELSE IF f.cmp_type # HY_EQ THEN JR(INCORECT_COMPARISON_TYPE, job)
    ELSE IF Len(f.matches) # 1 THEN JR(MULTIPLE_MATCH_OBJECTS, job)
    ELSE LET evr == IF pool_str2id(f.matches[1]) # 0 THEN pool_str2id(f.matches[1])
                    ELSE Len(Pool) + 1
             constr == IF f.keyname = "HY_PKG_VERSION" THEN "SOLVER_SETEV" ELSE "SOLVER_SETEVR"
             SetEvr(t) == [t EXCEPT !.how = @ \cup {constr}, !.evr = evr]
         IN  jobRewrite(job, ndebug, SetEvr)

\* filterReponameToJob: selection_filter keeps the tuples, limited to the
\* repos of that name.
filterReponameToJob(f, job) ==
    IF ~f.set THEN JR(OK, job)
    ELSE IF f.cmp_type # HY_EQ THEN JR(INCORECT_COMPARISON_TYPE, job)
    ELSE IF Len(f.matches) # 1 THEN JR(MULTIPLE_MATCH_OBJECTS, job)
    ELSE IF \E r \in DOMAIN Repos : Repos[r].name = f.matches[1]
         THEN JR(OK, [i \in DOMAIN job |-> [job[i] EXCEPT !.how = @ \cup {"SOLVER_SETREPO"}]])
         ELSE JR(OK, <<>>)

any_opt_filter(sltr) == sltr.arch.set \/ sltr.evr.set \/ sltr.reponame.set
any_req_filter(sltr) ==
    sltr.name.set \/ sltr.provides.set \/ sltr.file.set \/ sltr.pkgs # {}

\* One link of the chain of sltrToJob: the next filter runs unless the one
\* before returned an error ("if (ret) goto finish").
AndThen(r, NextFilterToJob(_)) == IF r.ret # OK THEN r ELSE NextFilterToJob(r.job)

\* The chain of filters of sltrToJob on the selector's own job queue.
sltrSteps(sltr, ndebug) ==
    AndThen(AndThen(AndThen(AndThen(AndThen(AndThen(
        filterPkgToJob(sltr.pkgs, <<>>),
        LAMBDA j : filterNameToJob(sltr.name, j)),
        LAMBDA j : filterFileToJob(sltr.file, j)),
        LAMBDA j : filterProvidesToJob(sltr.provides, j)),
        LAMBDA j : filterArchToJob(sltr.arch, j, ndebug)),
        LAMBDA j : filterEvrToJob(sltr.evr, j, ndebug)),
        LAMBDA j : filterReponameToJob(sltr.reponame, j))

\* sltrToJob without the test for a selector of optional filters only.
sltrToJob_unchecked(sltr, job, solver_action, ndebug) ==
    LET r == sltrSteps(sltr, ndebug)
    IN  CASE r.ret = OK ->
               [rc |-> OK,
                job |-> job \o [i \in DOMAIN r.job |->
                                   [r.job[i] EXCEPT !.how = @ \cup solver_action]]]
          [] r.ret = NO_MATCH -> [rc |-> OK, job |-> job]
          [] r.ret = ASSERT_FAILED -> [rc |-> ASSERT_FAILED, job |-> job]
          [] OTHER -> [rc |-> DNF_ERROR_BAD_SELECTOR, job |-> job]

\* sltrToJob(sltr, job, solver_action): rc is OK on a normal return (also for
\* NO_MATCH, which leaves the job alone), BAD_SELECTOR when Goal::Error is
\* thrown, ASSERT_FAILED when an assertion aborts the process.
sltrToJob(sltr, job, solver_action, ndebug) ==
    IF ~any_req_filter(sltr)
    THEN IF any_opt_filter(sltr)
         THEN [rc |-> DNF_ERROR_BAD_SELECTOR, job |-> job]
         ELSE [rc |-> OK, job |-> job]
    ELSE LET r == sltrSteps(sltr, ndebug)
         IN  CASE r.ret = OK ->
                    [rc |-> OK,
                     job |-> job \o [i \in DOMAIN r.job |->
                                        [r.job[i] EXCEPT !.how = @ \cup solver_action]]]
               [] r.ret = NO_MATCH -> [rc |-> OK, job |-> job]
               [] r.ret = ASSERT_FAILED -> [rc |-> ASSERT_FAILED, job |-> job]
               [] OTHER -> [rc |-> DNF_ERROR_BAD_SELECTOR, job |-> job]

\* packageToJob
packageToJob(package, job, solver_action) ==
    Append(job, JobTupleOneOf({"SOLVER_SOLVABLE_ONE_OF", "SOLVER_SETARCH", "SOLVER_SETEVR"}
                              \cup solver_action, {package}))

-----------------------------------------------------------------------------
(* The Goal (Goal.cpp 646-988, 1343-1522, 1620-1653).                      *)

NoTrans == [present |-> FALSE, erase |-> {}, obsoleted |-> {}]
\* One rule info of a solver problem: (type, source, target, dep).
RuleInfo(type, source, target, dep) ==
    [type |-> type, source |-> source, target |-> target, dep |-> dep]

\* No solver yet; rules holds, for each problem of the solver, the rule infos
\* that solver_findallproblemrules and solver_allruleinfos give for it.
NoSolv == [present |-> FALSE, problems |-> 0, decided |-> {}, rules |-> <<>>]

\* Goal::Impl::Impl(DnfSack *); protect_running_kernel is initialised to
\* true in the class declaration.
NewGoal ==
    [actions |-> {}, staging |-> <<>>, solv |-> NoSolv, trans |-> NoTrans,
     protectedPkgs |-> NullMap, protect_running_kernel |-> TRUE,
     exclude_from_weak |-> {}, removalOfProtected |-> NullMap]

\* Goal::Impl::Impl(const Goal::Impl &): staging, actions, the weak excludes
\* and the two package sets are copied; the members it does not name
\* (solver, transaction, protect_running_kernel) get their initial values.
CopyGoal(goal_src) ==
    [actions |-> goal_src.actions, staging |-> goal_src.staging, solv |-> NoSolv,
     trans |-> NoTrans, protectedPkgs |-> goal_src.protectedPkgs,
     protect_running_kernel |-> NewGoal.protect_running_kernel,
     exclude_from_weak |-> goal_src.exclude_from_weak,
     removalOfProtected |-> goal_src.removalOfProtected]

GR(rc, g) == [rc |-> rc, goal |-> g]

erase_flags2libsolv(flags) ==
    IF "HY_CLEAN_DEPS" \in flags THEN {"SOLVER_CLEANDEPS"} ELSE {}

\* Goal::install(HySelector, bool)
goalInstallSltr(g, sltr, optional, ndebug) ==
    LET solverActions == {"SOLVER_INSTALL"} \cup (IF optional THEN {"SOLVER_WEAK"} ELSE {})
        g1 == [g EXCEPT !.actions = @ \cup {"DNF_INSTALL", "DNF_ALLOW_DOWNGRADE"}]
        r == sltrToJob(sltr, g1.staging, solverActions, ndebug)
    IN  GR(r.rc, [g1 EXCEPT !.staging = r.job])

\* Goal::erase(HySelector, int)
goalEraseSltr(g, sltr, flags, ndebug) ==
    LET additional == erase_flags2libsolv(flags)
        g1 == [g EXCEPT !.actions = @ \cup {"DNF_ERASE"}]
        r == sltrToJob(sltr, g1.staging, {"SOLVER_ERASE"} \cup additional, ndebug)
    IN  GR(r.rc, [g1 EXCEPT !.staging = r.job])

\* Goal::upgrade(HySelector)
goalUpgradeSltr(g, sltr, ndebug) ==
    LET g1 == [g EXCEPT !.actions = @ \cup {"DNF_UPGRADE"}]
        flags == {"SOLVER_UPDATE"}
                 \cup (IF sltr.pkgs # {} THEN {"SOLVER_TARGETED"} ELSE {})
        r == sltrToJob(sltr, g1.staging, flags, ndebug)
    IN  GR(r.rc, [g1 EXCEPT !.staging = r.job])

\* Goal::distupgrade(HySelector)
goalDistupgradeSltr(g, sltr, ndebug) ==
    LET g1 == [g EXCEPT !.actions = @ \cup {"DNF_DISTUPGRADE", "DNF_ALLOW_DOWNGRADE"}]
        r == sltrToJob(sltr, g1.staging, {"SOLVER_DISTUPGRADE"}, ndebug)
    IN  GR(r.rc, [g1 EXCEPT !.staging = r.job])

\* Goal::distupgrade(): a selector of the available packages
goalDistupgradeAll(g, cons, ndebug) ==
    LET query == queryAvailable(NewQuery("APPLY_EXCLUDES"), cons)
        selector == [NoSelector EXCEPT !.pkgs = query.q.result.map]
    IN  goalDistupgradeSltr(g, selector, ndebug)

\* Goal::install(DnfPackage *, bool)
goalInstallPkg(g, new_pkg, optional) ==
    LET solverActions == {"SOLVER_INSTALL"} \cup (IF optional THEN {"SOLVER_WEAK"} ELSE {})
        g1 == [g EXCEPT !.actions = @ \cup {"DNF_INSTALL", "DNF_ALLOW_DOWNGRADE"}]
    IN  GR(OK, [g1 EXCEPT !.staging = packageToJob(new_pkg, @, solverActions)])

\* erase(pkg) that forgets the DNF_ERASE bit.
goalErasePkg_nobit(g, pkg, flags) ==
    GR(OK, [g EXCEPT !.staging =
                Append(@, JobTuple({"SOLVER_SOLVABLE", "SOLVER_ERASE"}
                                   \cup erase_flags2libsolv(flags), pkg))])

\* Goal::erase(DnfPackage *, int)
goalErasePkg(g, pkg, flags) ==
    LET additional == erase_flags2libsolv(flags)
        g1 == [g EXCEPT !.actions = @ \cup {"DNF_ERASE"}]
    IN  GR(OK, [g1 EXCEPT !.staging =
                    Append(@, JobTuple({"SOLVER_SOLVABLE", "SOLVER_ERASE"} \cup additional, pkg))])

\* Goal::upgrade()
goalUpgradeAll(g) ==
    LET g1 == [g EXCEPT !.actions = @ \cup {"DNF_UPGRADE_ALL"}]
    IN  GR(OK, [g1 EXCEPT !.staging =
                    Append(@, JobTuple({"SOLVER_UPDATE", "SOLVER_SOLVABLE_ALL"}, 0))])

\* Goal::upgrade(DnfPackage *)
goalUpgradePkg(g, new_pkg) ==
    LET g1 == [g EXCEPT !.actions = @ \cup {"DNF_UPGRADE"}]
    IN  GR(OK, [g1 EXCEPT !.staging = packageToJob(new_pkg, @, {"SOLVER_UPDATE"})])

\* Goal::distupgrade(DnfPackage *)
goalDistupgradePkg(g, new_pkg) ==
    LET g1 == [g EXCEPT !.actions = @ \cup {"DNF_DISTUPGRADE", "DNF_ALLOW_DOWNGRADE"}]
    IN  GR(OK, [g1 EXCEPT !.staging = packageToJob(new_pkg, @, {"SOLVER_DISTUPGRADE"})])

\* Goal::lock, Goal::favor, Goal::disfavor, Goal::userInstalled(DnfPackage *)
goalMark(g, solver_action, pkg) ==
    GR(OK, [g EXCEPT !.staging = Append(@, JobTuple({"SOLVER_SOLVABLE", solver_action}, pkg))])

\* Goal::addProtected
addProtected(g, pset) ==
    IF g.protectedPkgs.null THEN [g EXCEPT !.protectedPkgs = MapOf(pset)]
    ELSE [g EXCEPT !.protectedPkgs = MapOf(@.map \cup pset)]

\* Goal::setProtected
setProtected(g, pset) == [g EXCEPT !.protectedPkgs = MapOf(pset)]

\* Goal::set_protect_running_kernel
set_protect_running_kernel(g, value) == [g EXCEPT !.protect_running_kernel = value]

\* Goal::add_exclude_from_weak(DnfPackage *)
add_exclude_from_weak(g, pkg) == [g EXCEPT !.exclude_from_weak = @ \cup {pkg}]

\* Goal::reset_exclude_from_weak
reset_exclude_from_weak(g) == [g EXCEPT !.exclude_from_weak = {}]

\* Goal::hasActions
hasActions(g, action) == g.actions \cap action # {}

\* Goal::jobLength
jobLength(g) == Len(g.staging)

-----------------------------------------------------------------------------
(* Goal::run: job construction, solving, install-only limiting.            *)

\* The ids of a set in ascending order (PackageSet::next, id loops).
RECURSIVE SetToSeq(_)
SetToSeq(S) ==
    IF S = {} THEN <<>>
    ELSE LET m == CHOOSE x \in S : \A y \in S : x <= y
         IN  <<m>> \o SetToSeq(S \ {m})

\* Goal::Impl::protectedRunningKernel
protectedRunningKernel(g, sk) ==
    IF g.protect_running_kernel THEN sk.running_kernel ELSE 0

\* allowUninstallAllButProtected that leaves out the packages of the
\* protected set only, not the protected running kernel.
allowUninstallAllButProtected_kernel(g, sk, cons, job, flags) ==
    LET g1 == IF g.protectedPkgs.null THEN [g EXCEPT !.protectedPkgs = MapOf({})] ELSE g
        protected_kernel == protectedRunningKernel(g1, sk)
        Allowed(id) == /\ Pool[id].repo = installed
                       /\ id \notin g1.protectedPkgs.map
                       /\ (cons.null \/ id \in cons.map)
        ids == SelectSeq(SetToSeq(Solvables), Allowed)
    IN  [goal |-> g1,
         job |-> IF "DNF_ALLOW_UNINSTALL" \in flags
                 THEN job \o [i \in DOMAIN ids |->
                                 JobTuple({"SOLVER_ALLOWUNINSTALL", "SOLVER_SOLVABLE"}, ids[i])]
                 ELSE job]

\* Goal::Impl::allowUninstallAllButProtected: an unset protected set becomes
\* an empty one; returns the goal and the job.
allowUninstallAllButProtected(g, sk, cons, job, flags) ==
    LET g1 == IF g.protectedPkgs.null THEN [g EXCEPT !.protectedPkgs = MapOf({})] ELSE g
        protected_kernel == protectedRunningKernel(g1, sk)
        Allowed(id) == /\ Pool[id].repo = installed
                       /\ id \notin g1.protectedPkgs.map
                       /\ id # protected_kernel
                       /\ (cons.null \/ id \in cons.map)
        ids == SelectSeq(SetToSeq(Solvables), Allowed)
    IN  [goal |-> g1,
         job |-> IF "DNF_ALLOW_UNINSTALL" \in flags
                 THEN job \o [i \in DOMAIN ids |->
                                 JobTuple({"SOLVER_ALLOWUNINSTALL", "SOLVER_SOLVABLE"}, ids[i])]
                 ELSE job]

\* constructJob that sets FORCEBEST in the staging queue itself, not in a
\* clone of it.
constructJob_inplace(g, sk, cons, flags) ==
    LET forced == [i \in DOMAIN g.staging |->
                      IF "DNF_FORCE_BEST" \in flags
                      THEN [g.staging[i] EXCEPT !.how = @ \cup {"SOLVER_FORCEBEST"}]
                      ELSE g.staging[i]]
        weak == SetToSeq(g.exclude_from_weak)
        job1 == forced \o [i \in DOMAIN weak |->
                              JobTuple({"SOLVER_SOLVABLE", "SOLVER_EXCLUDEFROMWEAK"}, weak[i])]
        job2 == job1 \o [i \in DOMAIN sk.installonly |->
                            JobTuple({"SOLVER_MULTIVERSION", "SOLVER_SOLVABLE_PROVIDES"},
                                     sk.installonly[i])]
        a == allowUninstallAllButProtected(g, sk, cons, job2, flags)
    IN  [goal |-> [a.goal EXCEPT !.staging = forced],
         job |-> IF "DNF_VERIFY" \in flags
                 THEN Append(a.job, JobTuple({"SOLVER_VERIFY", "SOLVER_SOLVABLE_ALL"}, 0))
                 ELSE a.job]

\* Goal::Impl::constructJob
constructJob(g, sk, cons, flags) ==
    LET forced == [i \in DOMAIN g.staging |->
                      IF "DNF_FORCE_BEST" \in flags
                      THEN [g.staging[i] EXCEPT !.how = @ \cup {"SOLVER_FORCEBEST"}]
                      ELSE g.staging[i]]
        weak == SetToSeq(g.exclude_from_weak)
        job1 == forced \o [i \in DOMAIN weak |->
                              JobTuple({"SOLVER_SOLVABLE", "SOLVER_EXCLUDEFROMWEAK"}, weak[i])]
        job2 == job1 \o [i \in DOMAIN sk.installonly |->
                            JobTuple({"SOLVER_MULTIVERSION", "SOLVER_SOLVABLE_PROVIDES"},
                                     sk.installonly[i])]
        a == allowUninstallAllButProtected(g, sk, cons, job2, flags)
    IN  [goal |-> a.goal,
         job |-> IF "DNF_VERIFY" \in flags
                 THEN Append(a.job, JobTuple({"SOLVER_VERIFY", "SOLVER_SOLVABLE_ALL"}, 0))
                 ELSE a.job]

\* solvable_lookup_idarray(sa, SOLVABLE_REQUIRES): only a-1-1.noarch of the
\* large pool requires something.
Requires(p) == IF sack.pool = "dup" /\ p = 5 THEN {KernelDep} ELSE {}

\* can_depend_on
can_depend_on(sa, b) == \E req_dep \in Requires(sa) : b \in WhatProvides(req_dep)

\* sort_packages that does not look at the running kernel's evr.
sort_packages_nokernelevr(a, b, kernel) ==
    LET name_diff == Pool[a].name - Pool[b].name
    IN  IF name_diff # 0 THEN name_diff
        ELSE IF Pool[a].repo # installed THEN 1
        ELSE IF Pool[b].repo # installed THEN -1
        ELSE IF kernel >= 0 /\ (a = kernel \/ can_depend_on(a, kernel)) THEN 1
        ELSE IF kernel >= 0 /\ (b = kernel \/ can_depend_on(b, kernel)) THEN -1
        ELSE pool_evrcmp(Pool[a].evr, Pool[b].evr)

\* sort_packages: the comparator of the install-only sort
sort_packages(a, b, kernel) ==
    LET name_diff == Pool[a].name - Pool[b].name
    IN  IF name_diff # 0 THEN name_diff
        ELSE IF Pool[a].repo # installed THEN 1
        ELSE IF Pool[b].repo # installed THEN -1
        ELSE IF kernel >= 0 /\ (a = kernel \/ can_depend_on(a, kernel)) THEN 1
        ELSE IF kernel >= 0 /\ (b = kernel \/ can_depend_on(b, kernel)) THEN -1
        ELSE IF kernel >= 0 /\ Pool[a].evr = Pool[kernel].evr THEN 1
        ELSE IF kernel >= 0 /\ Pool[b].evr = Pool[kernel].evr THEN -1
        ELSE pool_evrcmp(Pool[a].evr, Pool[b].evr)

\* solv_sort(q, sort_packages): the orders the sort can leave the ids of q
\* in.  Where the comparator puts each of two ids after the other, or ranks
\* them equal, either order can come out; an id comes first when the
\* comparator puts no other id strictly before it.
RECURSIVE sort_packages_results(_, _)
sort_packages_results(ids, kernel) ==
    IF ids = {} THEN {<<>>}
    ELSE LET first == {x \in ids : \A y \in ids \ {x} :
                          ~(sort_packages(x, y, kernel) > 0 /\ sort_packages(y, x, kernel) < 0)}
         IN  UNION {{<<x>> \o t : t \in sort_packages_results(ids \ {x}, kernel)} : x \in first}

\* same_name_subqueue: pops the run of equally named ids off the end of in,
\* last first.
RECURSIVE same_name_subqueue(_, _)
same_name_subqueue(in, out) ==
    IF out = <<>>
    THEN same_name_subqueue(SubSeq(in, 1, Len(in) - 1), <<in[Len(in)]>>)
    ELSE IF in # <<>> /\ Pool[in[Len(in)]].name = Pool[out[1]].name
         THEN same_name_subqueue(SubSeq(in, 1, Len(in) - 1), Append(out, in[Len(in)]))
         ELSE [in |-> in, out |-> out]

\* The while loop of limitInstallonlyPackages over the sorted q.
RECURSIVE limitSameNames(_, _, _)
limitSameNames(q, st, sk) ==
    IF q = <<>> THEN st
    ELSE LET sn == same_name_subqueue(q, <<>>)
             same_names == sn.out
         IN  IF Len(same_names) <= sk.installonly_limit
             THEN limitSameNames(sn.in, st, sk)
             ELSE limitSameNames(sn.in,
                     [reresolve |-> 1,
                      job |-> st.job \o
                          [j \in DOMAIN same_names |->
                              JobTuple({IF j - 1 < sk.installonly_limit
                                        THEN "SOLVER_INSTALL" ELSE "SOLVER_ERASE",
                                        "SOLVER_SOLVABLE"}, same_names[j])]],
                     sk)

\* One round of the loop over the install-only provides: the states it can
\* end in.
limitInstallonly(i, st, sk, decided) ==
    LET q == SelectSeq(SetToSeq(WhatProvides(sk.installonly[i])), LAMBDA p : p \in decided)
        installing == \E k \in DOMAIN q : Pool[q[k]].repo # installed
    IN  IF Len(q) <= sk.installonly_limit \/ ~installing THEN {st}
        ELSE {limitSameNames(s, st, sk) : s \in sort_packages_results({q[k] : k \in DOMAIN q}, sk.running_kernel)}

RECURSIVE limitInstallonlyLoop(_, _, _, _)
limitInstallonlyLoop(i, st, sk, decided) ==
    IF i > Len(sk.installonly) THEN {st}
    ELSE UNION {limitInstallonlyLoop(i + 1, st2, sk, decided) :
                    st2 \in limitInstallonly(i, st, sk, decided)}

\* limitInstallonlyPackages without the early return for a limit of 0.
limitInstallonlyPackages_unguarded(sk, decided, job) ==
    limitInstallonlyLoop(1, [reresolve |-> 0, job |-> job], sk, decided)

\* Goal::Impl::limitInstallonlyPackages: what it can return and leave in job.
limitInstallonlyPackages(sk, decided, job) ==
    IF sk.installonly_limit = 0 THEN {[reresolve |-> 0, job |-> job]}
    ELSE limitInstallonlyLoop(1, [reresolve |-> 0, job |-> job], sk, decided)

\* Goal::Impl::listResults on an existing transaction
listResults(g, type_filter) ==
    IF type_filter = "SOLVER_TRANSACTION_ERASE" THEN g.trans.erase
    ELSE IF type_filter = "SOLVER_TRANSACTION_OBSOLETED" THEN g.trans.obsoleted
    ELSE {}

\* protectedInRemovals without its early return and with the running kernel
\* compared whether or not it is protected.
protectedInRemovals_anykernel(g, sk) ==
    LET pkgRemoveList == listResults(g, "SOLVER_TRANSACTION_ERASE")
                         \cup listResults(g, "SOLVER_TRANSACTION_OBSOLETED")
        kept == {id \in pkgRemoveList :
                    id \in g.protectedPkgs.map \/ id = sk.running_kernel}
    IN  [ret |-> kept # {}, goal |-> [g EXCEPT !.removalOfProtected = MapOf(kept)]]

\* Goal::Impl::protectedInRemovals
protectedInRemovals(g, sk) ==
    IF (g.protectedPkgs.null \/ g.protectedPkgs.map = {}) /\ ~g.protect_running_kernel
    THEN [ret |-> FALSE, goal |-> g]
    ELSE LET pkgRemoveList == listResults(g, "SOLVER_TRANSACTION_ERASE")
                              \cup listResults(g, "SOLVER_TRANSACTION_OBSOLETED")
             protected_kernel == protectedRunningKernel(g, sk)
             kept == {id \in pkgRemoveList :
                         id \in g.protectedPkgs.map \/ id = protected_kernel}
         IN  [ret |-> kept # {}, goal |-> [g EXCEPT !.removalOfProtected = MapOf(kept)]]

\* The answers of the solver, which is a black box: the problems of the
\* first and of the second solver_solve, the solvables with a positive
\* decision level, the transaction.
SolverAnswer(problems1, decided, problems2, trans) ==
    [problems1 |-> problems1, decided |-> decided, problems2 |-> problems2, trans |-> trans,
     rules |-> <<<<RuleInfo("SOLVER_RULE_JOB", 0, 0, 0)>>>>]

\* What solve leaves: the goal, its return, the jobs it handed to the solver,
\* the job queue at its end and what each solver_solve returned.
SR(g, ret, jobs, job, solved) ==
    [goal |-> g, ret |-> ret, jobs |-> jobs, job |-> job, solved |-> solved]

\* The end of solve: the transaction is created and checked.
solveFinish(g, sk, jobs, job, solved, ans) ==
    LET g1 == [g EXCEPT !.trans = [present |-> TRUE, erase |-> ans.trans.erase,
                                   obsoleted |-> ans.trans.obsoleted]]
        p == protectedInRemovals(g1, sk)
    IN  SR(p.goal, p.ret, jobs, job, solved)

\* solve that does not free the transaction of the run before.
solve_keeptrans(g, sk, cons, job, flags, ans) ==
    LET job1 == [i \in DOMAIN job |->
                    IF "DNF_IGNORE_WEAK" \in flags
                    THEN [job[i] EXCEPT !.how = @ \ {"SOLVER_WEAK"}]
                    ELSE job[i]]
        g1 == [g EXCEPT !.solv = [present |-> TRUE, problems |-> ans.problems1,
                                  decided |-> IF ans.problems1 = 0 THEN ans.decided ELSE {},
                                  rules |-> IF ans.problems1 = 0 THEN <<>> ELSE ans.rules]]
    IN  IF ans.problems1 # 0 THEN {SR(g1, TRUE, <<job1>>, job1, <<ans.problems1>>)}
        ELSE {IF lim.reresolve # 0
              THEN LET a == allowUninstallAllButProtected(g1, sk, cons, lim.job,
                                                          {"DNF_ALLOW_UNINSTALL"})
                   IN  IF ans.problems2 # 0
                       THEN SR([a.goal EXCEPT !.solv.problems = ans.problems2,
                                              !.solv.rules = ans.rules], TRUE,
                               <<job1, a.job>>, a.job, <<0, ans.problems2>>)
                       ELSE solveFinish(a.goal, sk, <<job1, a.job>>, a.job, <<0, 0>>, ans)
              ELSE solveFinish(g1, sk, <<job1>>, lim.job, <<0>>, ans)
              : lim \in limitInstallonlyPackages(sk, ans.decided, job1)}

\* solve that calls the solver again when the limiting left the job alone,
\* and not when it extended it.
solve_inverted(g, sk, cons, job, flags, ans) ==
    LET job1 == [i \in DOMAIN job |->
                    IF "DNF_IGNORE_WEAK" \in flags
                    THEN [job[i] EXCEPT !.how = @ \ {"SOLVER_WEAK"}]
                    ELSE job[i]]
        g1 == [g EXCEPT !.trans = NoTrans,
                        !.solv = [present |-> TRUE, problems |-> ans.problems1,
                                  decided |-> IF ans.problems1 = 0 THEN ans.decided ELSE {},
                                  rules |-> IF ans.problems1 = 0 THEN <<>> ELSE ans.rules]]
    IN  IF ans.problems1 # 0 THEN {SR(g1, TRUE, <<job1>>, job1, <<ans.problems1>>)}
        ELSE {IF lim.reresolve = 0
              THEN LET a == allowUninstallAllButProtected(g1, sk, cons, lim.job,
                                                          {"DNF_ALLOW_UNINSTALL"})
                   IN  IF ans.problems2 # 0
                       THEN SR([a.goal EXCEPT !.solv.problems = ans.problems2,
                                              !.solv.rules = ans.rules], TRUE,
                               <<job1, a.job>>, a.job, <<0, ans.problems2>>)
                       ELSE solveFinish(a.goal, sk, <<job1, a.job>>, a.job, <<0, 0>>, ans)
              ELSE solveFinish(g1, sk, <<job1>>, lim.job, <<0>>, ans)
              : lim \in limitInstallonlyPackages(sk, ans.decided, job1)}

\* Goal::Impl::solve(job, flags): returns true when it FAILS.  cons is the
\* pool->considered it has just recomputed.
solve(g, sk, cons, job, flags, ans) ==
    LET job1 == [i \in DOMAIN job |->
                    IF "DNF_IGNORE_WEAK" \in flags
                    THEN [job[i] EXCEPT !.how = @ \ {"SOLVER_WEAK"}]
                    ELSE job[i]]
        g1 == [g EXCEPT !.trans = NoTrans,
                        !.solv = [present |-> TRUE, problems |-> ans.problems1,
                                  decided |-> IF ans.problems1 = 0 THEN ans.decided ELSE {},
                                  rules |-> IF ans.problems1 = 0 THEN <<>> ELSE ans.rules]]
    IN  IF ans.problems1 # 0 THEN {SR(g1, TRUE, <<job1>>, job1, <<ans.problems1>>)}
        ELSE {IF lim.reresolve # 0
              THEN LET a == allowUninstallAllButProtected(g1, sk, cons, lim.job,
                                                          {"DNF_ALLOW_UNINSTALL"})
                   IN  IF ans.problems2 # 0
                       THEN SR([a.goal EXCEPT !.solv.problems = ans.problems2,
                                              !.solv.rules = ans.rules], TRUE,
                               <<job1, a.job>>, a.job, <<0, ans.problems2>>)
                       ELSE solveFinish(a.goal, sk, <<job1, a.job>>, a.job, <<0, 0>>, ans)
              ELSE solveFinish(g1, sk, <<job1>>, lim.job, <<0>>, ans)
              : lim \in limitInstallonlyPackages(sk, ans.decided, job1)}

\* Goal::run(flags)
goalRun(g, sk, cons_before, cons, flags, ans) ==
    LET c == constructJob(g, sk, cons_before, flags)
        g1 == [c.goal EXCEPT !.actions = @ \cup flags]
    IN  {[goal |-> r.goal,
          run |-> [flags |-> flags, constructed |-> c.job, jobs |-> r.jobs, job |-> r.job,
                   solved |-> r.solved, ret |-> r.ret]] :
            r \in solve(g1, sk, cons, c.job, flags, ans)}

-----------------------------------------------------------------------------
(* Reading the outcome of a run (Goal.cpp 144-231, 1085-1137, 1186-1283,   *)
(* 1554-1618, 1658-1692).  The accessors change nothing in the Goal.       *)

DNF_ERROR_INTERNAL_ERROR == "INTERNAL_ERROR"
DNF_ERROR_NO_SOLUTION == "NO_SOLUTION"
DNF_ERROR_REMOVAL_OF_PROTECTED_PKG == "REMOVAL_OF_PROTECTED_PKG"

\* The type filters of listInstalls, listErasures, listUpgrades,
\* listDowngrades, listReinstalls and listObsoleted.
ListTypes ==
    {"SOLVER_TRANSACTION_INSTALL", "SOLVER_TRANSACTION_ERASE", "SOLVER_TRANSACTION_UPGRADE",
     "SOLVER_TRANSACTION_DOWNGRADE", "SOLVER_TRANSACTION_REINSTALL",
     "SOLVER_TRANSACTION_OBSOLETED"}

\* listResults that takes any removalOfProtected set, empty or not, for a
\* removal of protected packages.
goalListResults_nosize(g, type_filter) ==
    IF ~g.trans.present
    THEN IF ~g.solv.present
         THEN [rc |-> DNF_ERROR_INTERNAL_ERROR, pkgs |-> {}]
         ELSE IF ~g.removalOfProtected.null
              THEN [rc |-> DNF_ERROR_REMOVAL_OF_PROTECTED_PKG, pkgs |-> {}]
              ELSE [rc |-> DNF_ERROR_NO_SOLUTION, pkgs |-> {}]
    ELSE [rc |-> OK, pkgs |-> listResults(g, type_filter)]

\* Goal::listErasures and the like: Goal::Impl::listResults with its check
\* for a missing transaction; gives the error thrown (OK for none) and the
\* packages returned.
goalListResults(g, type_filter) ==
    IF ~g.trans.present
    THEN IF ~g.solv.present
         THEN [rc |-> DNF_ERROR_INTERNAL_ERROR, pkgs |-> {}]
         ELSE IF ~g.removalOfProtected.null /\ g.removalOfProtected.map # {}
              THEN [rc |-> DNF_ERROR_REMOVAL_OF_PROTECTED_PKG, pkgs |-> {}]
              ELSE [rc |-> DNF_ERROR_NO_SOLUTION, pkgs |-> {}]
    ELSE [rc |-> OK, pkgs |-> listResults(g, type_filter)]

\* What a call of libsolv on a null Solver can come to: the read through
\* the null pointer is undefined; the process is killed, or the call goes on
\* and returns some packages.  No error is thrown.
SIGSEGV == "SIGSEGV"
NullSolverLists ==
    {[rc |-> SIGSEGV, pkgs |-> {}]} \cup {[rc |-> OK, pkgs |-> s] : s \in SUBSET PkgSolvables}

\* Goal::listUnneeded: solver_get_unneeded on pImpl->solv, which is not
\* checked; with a solver, some installed packages.
listUnneeded(g) ==
    IF ~g.solv.present THEN NullSolverLists
    ELSE {[rc |-> OK, pkgs |-> s] : s \in SUBSET {p \in PkgSolvables : Pool[p].repo = installed}}

\* Goal::listSuggested: solver_get_recommendations on pImpl->solv, which is
\* not checked; with a solver, some packages that are not installed.
listSuggested(g) ==
    IF ~g.solv.present THEN NullSolverLists
    ELSE {[rc |-> OK, pkgs |-> s] : s \in SUBSET {p \in PkgSolvables : Pool[p].repo # installed}}

\* countProblems that adds the size of removalOfProtected, not MIN(1, size).
countProblems_uncapped(g) ==
    g.solv.problems
    + (IF g.removalOfProtected.null THEN 0 ELSE Cardinality(g.removalOfProtected.map))

\* Goal::Impl::countProblems on a Goal that has a solver.
countProblems(g) ==
    g.solv.problems
    + Min2(1, IF g.removalOfProtected.null THEN 0 ELSE Cardinality(g.removalOfProtected.map))

\* Goal::countProblems on any Goal: assert(solv) aborts the process when
\* there is no solver; in a build without assertions solver_problem_count
\* reads through the null pointer.
goalCountProblems(g, ndebug) ==
    IF g.solv.present THEN {[rc |-> OK, count |-> countProblems(g)]}
    ELSE IF ~ndebug THEN {[rc |-> ASSERT_FAILED, count |-> 0]}
    ELSE {[rc |-> SIGSEGV, count |-> 0]} \cup {[rc |-> OK, count |-> n] : n \in 0 .. 1}

\* Goal::Impl::brokenDependencyPkgs(i): the sources of the rules of problem
\* i + 1 that say a dependency is broken.
brokenDependencyPkgs(g, i) ==
    IF i >= g.solv.problems THEN <<>>
    ELSE LET infos == SelectSeq(g.solv.rules[i + 1],
                                LAMBDA r : r.type \in {"SOLVER_RULE_PKG_NOTHING_PROVIDES_DEP",
                                                       "SOLVER_RULE_PKG_REQUIRES"})
         IN  [j \in DOMAIN infos |-> infos[j].source]

\* Goal::Impl::brokenDependencyAllPkgs(DNF_PACKAGE_STATE_INSTALLED)
brokenDependencyAllPkgs(g) ==
    {id \in UNION {{brokenDependencyPkgs(g, i)[j] : j \in DOMAIN brokenDependencyPkgs(g, i)} :
                      i \in 0 .. countProblems(g) - 1} :
        Pool[id].repo = installed}

\* The sentence of describeProtectedRemoval for a set of packages: the
\* message and the names of the packages in id order; no sentence for none.
NoSentence == <<>>
ProtectedSentence(ids) ==
    IF ids = {} THEN NoSentence
    ELSE <<"PROTECTED_REMOVAL">> \o [k \in DOMAIN SetToSeq(ids) |->
                                        pool_id2str(Pool[SetToSeq(ids)[k]].name)]

\* Goal::Impl::describeProtectedRemoval
describeProtectedRemoval(g, sk) ==
    IF ~g.removalOfProtected.null /\ g.removalOfProtected.map # {}
    THEN ProtectedSentence(g.removalOfProtected.map)
    ELSE ProtectedSentence({id \in brokenDependencyAllPkgs(g) :
                               \/ id \in g.protectedPkgs.map
                               \/ id = protectedRunningKernel(g, sk)})

\* libdnf_problemruleinfo2str with the package dictionary: the key of the
\* message and what is printed into it (solvables as ids, repos by name).
libdnf_problemruleinfo2str(type, source, target, dep) ==
    LET repo(p) == Repos[Pool[p].repo].name
    IN  CASE type = "SOLVER_RULE_DISTUPGRADE" -> <<"RULE_DISTUPGRADE", source, repo(source)>>
          [] type = "SOLVER_RULE_INFARCH" -> <<"RULE_DISTUPGRADE", source, repo(source)>>
          [] type = "SOLVER_RULE_UPDATE" -> <<"RULE_UPDATE", source>>
          [] type = "SOLVER_RULE_JOB" -> <<"RULE_JOB">>
          [] type = "SOLVER_RULE_PKG_NOTHING_PROVIDES_DEP" ->
                <<"RULE_PKG_NOTHING_PROVIDES_DEP", dep, source, repo(source)>>
          [] type = "SOLVER_RULE_PKG_SAME_NAME" ->
                <<"RULE_PKG_SAME_NAME", source, repo(source), target, repo(target)>>
          [] type = "SOLVER_RULE_PKG_CONFLICTS" ->
                <<"RULE_PKG_CONFLICTS", source, repo(source), dep, target, repo(target)>>
          [] type = "SOLVER_RULE_PKG_REQUIRES" ->
                <<"RULE_PKG_REQUIRES", source, repo(source), dep>>
          [] OTHER -> <<"solver_problemruleinfo2str", type, source, target, dep>>

\* The loop of describeProblemRules with every sentence pushed.
RECURSIVE describeRules_all(_, _)
describeRules_all(infos, output) ==
    IF infos = <<>> THEN output
    ELSE LET r == Head(infos)
         IN  describeRules_all(Tail(infos),
                 Append(output, libdnf_problemruleinfo2str(r.type, r.source, r.target, r.dep)))

\* The loop of describeProblemRules: a sentence is pushed unless the output
\* holds it already.
RECURSIVE describeRules(_, _)
describeRules(infos, output) ==
    IF infos = <<>> THEN output
    ELSE LET r == Head(infos)
             problem_str == libdnf_problemruleinfo2str(r.type, r.source, r.target, r.dep)
         IN  describeRules(Tail(infos),
                           IF \E k \in DOMAIN output : output[k] = problem_str
                           THEN output ELSE Append(output, problem_str))

\* Goal::describeProblemRules(i, true) on a Goal that has a solver.
describeProblemRules(g, sk, i) ==
    IF i >= countProblems(g) THEN <<>>
    ELSE IF describeProtectedRemoval(g, sk) # NoSentence
         THEN <<describeProtectedRemoval(g, sk)>>
         ELSE IF i >= g.solv.problems THEN <<>>
              ELSE describeRules(g.solv.rules[i + 1], <<>>)

\* The loop of describeAllProblemRules without the comparison of the sizes.
RECURSIVE describeAllLoop_nosize(_, _, _, _)
describeAllLoop_nosize(g, sk, i, output) ==
    IF i >= countProblems(g) THEN output
    ELSE LET problemList == describeProblemRules(g, sk, i)
             saved(problemsSaved) ==
                 \A k \in DOMAIN problemList :
                       \E l \in DOMAIN problemsSaved : problemsSaved[l] = problemList[k]
         IN  IF problemList = <<>> THEN describeAllLoop_nosize(g, sk, i + 1, output)
             ELSE IF \E n \in DOMAIN output : saved(output[n])
                  THEN describeAllLoop_nosize(g, sk, i + 1, output)
                  ELSE describeAllLoop_nosize(g, sk, i + 1, Append(output, problemList))

\* The loop of Goal::describeAllProblemRules over the problems from i on: a
\* list is dropped when a saved list of its size holds each of its sentences.
RECURSIVE describeAllLoop(_, _, _, _)
describeAllLoop(g, sk, i, output) ==
    IF i >= countProblems(g) THEN output
    ELSE LET problemList == describeProblemRules(g, sk, i)
             saved(problemsSaved) ==
                 /\ Len(problemList) = Len(problemsSaved)
                 /\ \A k \in DOMAIN problemList :
                       \E l \in DOMAIN problemsSaved : problemsSaved[l] = problemList[k]
         IN  IF problemList = <<>> THEN describeAllLoop(g, sk, i + 1, output)
             ELSE IF \E n \in DOMAIN output : saved(output[n])
                  THEN describeAllLoop(g, sk, i + 1, output)
                  ELSE describeAllLoop(g, sk, i + 1, Append(output, problemList))

\* Goal::describeAllProblemRules(true) on a Goal that has a solver.
describeAllProblemRules(g, sk) == describeAllLoop(g, sk, 0, <<>>)

NoRun ==
    [flags |-> {}, constructed |-> <<>>, jobs |-> <<>>, job |-> <<>>, solved |-> <<>>,
     ret |-> FALSE]

-----------------------------------------------------------------------------
(* The state machine of the queries.                                       *)

\* The addFilter calls made: match type, keyname, comparison and match.
NumRequests ==
    {[mt |-> "num", keyname |-> k, cmp_type |-> HY_EQ, num |-> n, str |-> "", pset |-> {}] :
        k \in {"HY_PKG_LATEST", "HY_PKG_LATEST_PER_ARCH", "HY_PKG_LATEST_PER_ARCH_BY_PRIORITY"},
        n \in {1, -1}}
    \cup {[mt |-> "num", keyname |-> "HY_PKG_NAME", cmp_type |-> HY_EQ, num |-> 1,
           str |-> "", pset |-> {}],
          [mt |-> "num", keyname |-> "HY_PKG_LATEST", cmp_type |-> HY_GLOB, num |-> 1,
           str |-> "", pset |-> {}]}

StrRequests ==
    {[mt |-> "str", keyname |-> "HY_PKG_NAME", cmp_type |-> HY_EQ, num |-> 0,
      str |-> "a", pset |-> {}],
     [mt |-> "str", keyname |-> "HY_PKG_NAME", cmp_type |-> {"GLOB", "NOT"}, num |-> 0,
      str |-> "b", pset |-> {}],
     [mt |-> "str", keyname |-> "HY_PKG_ARCH", cmp_type |-> HY_EQ, num |-> 0,
      str |-> "noarch", pset |-> {}],
     [mt |-> "str", keyname |-> "HY_PKG_PROVIDES", cmp_type |-> HY_EQ, num |-> 0,
      str |-> "b", pset |-> {}],
     [mt |-> "str", keyname |-> "HY_PKG_PROVIDES", cmp_type |-> HY_NEQ, num |-> 0,
      str |-> "b", pset |-> {}],
     [mt |-> "str", keyname |-> "HY_PKG_NEVRA_STRICT", cmp_type |-> HY_EQ, num |-> 0,
      str |-> "a-2-1.x86_64", pset |-> {}],
     [mt |-> "str", keyname |-> "HY_PKG_NEVRA_STRICT", cmp_type |-> HY_GLOB, num |-> 0,
      str |-> "a-2-1.x86_64", pset |-> {}],
     [mt |-> "str", keyname |-> "HY_PKG_ARCH", cmp_type |-> HY_SUBSTR, num |-> 0,
      str |-> "86", pset |-> {}],
     [mt |-> "str", keyname |-> "HY_PKG_LOCATION", cmp_type |-> HY_GLOB, num |-> 0,
      str |-> "*", pset |-> {}],
     [mt |-> "str", keyname |-> "HY_PKG_LATEST", cmp_type |-> HY_EQ, num |-> 0,
      str |-> "a", pset |-> {}]}

PkgRequests ==
    {[mt |-> "pkg", keyname |-> "HY_PKG", cmp_type |-> HY_EQ, num |-> 0, str |-> "",
      pset |-> {2, 4, 8}],
     [mt |-> "pkg", keyname |-> "HY_PKG_NAME", cmp_type |-> HY_EQ, num |-> 0, str |-> "",
      pset |-> {2}],
     [mt |-> "pkg", keyname |-> "HY_PKG", cmp_type |-> HY_GLOB, num |-> 0, str |-> "",
      pset |-> {2}]}

FilterRequests == NumRequests \cup StrRequests \cup PkgRequests

\* The addFilter overload a request goes to.
addFilter(qr, cons, req) ==
    CASE req.mt = "num" ->
            LET r == addFilterNum(qr, req.keyname, req.cmp_type, req.num)
            IN  [rc |-> r.rc, q |-> r.q, considered |-> cons]
      [] req.mt = "pkg" ->
            LET r == addFilterPkg(qr, req.keyname, req.cmp_type, req.pset)
            IN  [rc |-> r.rc, q |-> r.q, considered |-> cons]
      [] req.mt = "str" -> addFilterStr(qr, cons, req.keyname, req.cmp_type, req.str)

\* The requests made in the two-query machine: few, as the set operations
\* multiply the results.
BasicRequests ==
    {r \in FilterRequests :
        \/ r.mt = "str" /\ r.keyname = "HY_PKG_NAME" /\ r.cmp_type = HY_EQ
        \/ r.mt = "num" /\ r.keyname = "HY_PKG_LATEST" /\ r.num = -1}

RequestsOf(i) ==
    IF i = "q" THEN BasicRequests ELSE {r \in BasicRequests : r.mt = "str"}


\* The call recorded in last: on a Query (q) or on the Goal (with its selector).
Call(op, q, rc) == [op |-> op, q |-> q, rc |-> rc, sltr |-> NoSelector]
GoalCall(op, rc, sltr) == [op |-> op, q |-> "", rc |-> rc, sltr |-> sltr]

\* dnf_sack_new: no install-only limit, install-only name "a", running
\* kernel a-2-1 of the system repo.
NewSack == [pool |-> "base", installonly |-> <<pool_str2id("a")>>, installonly_limit |-> 0,
            running_kernel |-> ReposBase[1].start + 1]

Init ==
    /\ installed \in {0, 1}
    /\ sack = NewSack
    /\ excludes = {}
    /\ considered = NullMap
    /\ queries \in [Queries -> {NewQuery(f) : f \in QueryFlags}]
    /\ goal = NewGoal
    /\ run = NoRun
    /\ last = Call("new", "q", OK)

\* The sack is given other regular excludes (dnf_sack_set_excludes and the
\* like); pool->considered is recomputed by the next reader that asks for it.
SackSetExcludes ==
    /\ \E e \in ExcludeChoices : e # excludes /\ excludes' = e
    /\ last' = Call("sackSetExcludes", "", OK)
    /\ UNCHANGED <<installed, sack, considered, queries, goal, run>>

AddFilter(i, requests) ==
    /\ Len(queries[i].filters) < MaxFilters
    /\ \E req \in requests :
          LET returned(r) ==
                  /\ queries' = [queries EXCEPT ![i] = r.q]
                  /\ considered' = r.considered
                  /\ last' = Call("addFilter", i, r.rc)
          IN  returned(addFilter(queries[i], considered, req))
    /\ UNCHANGED <<installed, sack, excludes, goal, run>>

QueryStep(i, op, st) ==
    /\ queries' = [queries EXCEPT ![i] = st.q]
    /\ considered' = st.considered
    /\ last' = Call(op, i, OK)
    /\ UNCHANGED <<installed, sack, excludes, goal, run>>

Apply(i) == QueryStep(i, "apply", apply(queries[i], considered))

Installed(i) == QueryStep(i, "installed", queryInstalled(queries[i], considered))

Available(i) == QueryStep(i, "available", queryAvailable(queries[i], considered))

FilterExtras(i) == QueryStep(i, "filterExtras", queryFilterExtras(queries[i], considered))

FilterDuplicated(i) ==
    QueryStep(i, "filterDuplicated", queryFilterDuplicated(queries[i], considered))

FilterRecent(i) ==
    \E recent_limit \in {2} :
        QueryStep(i, "filterRecent", queryFilterRecent(queries[i], considered, recent_limit))

SetOp(i, j) ==
    /\ i # j
    /\ \E op \in {"queryUnion", "queryIntersection", "queryDifference"} :
          LET returned(r) ==
                  /\ queries' = [queries EXCEPT ![i] = r.q, ![j] = r.other]
                  /\ considered' = r.considered
                  /\ last' = Call(op, i, OK)
          IN  returned(querySetOp(op, queries[i], queries[j], considered))
    /\ UNCHANGED <<installed, sack, excludes, goal, run>>

\* Two queries over one sack: every operation on q, and another Query that
\* is filtered, applied and handed to q's set operations.
Next ==
    \/ SackSetExcludes
    \/ \E i \in Queries : AddFilter(i, RequestsOf(i))
    \/ \E i \in Queries : Apply(i)
    \/ Installed("q")
    \/ Available("q")
    \/ FilterExtras("q")
    \/ FilterDuplicated("q")
    \/ FilterRecent("q")
    \/ SetOp("q", "other")

Spec == Init /\ [][Next]_vars

\* One query and every kind of addFilter call, accepted or rejected.
InitFilter ==
    /\ Init
    /\ queries["other"] = NewQuery("APPLY_EXCLUDES")

NextFilter ==
    \/ AddFilter("q", FilterRequests)
    \/ Apply("q")
    \/ Installed("q")
    \/ Available("q")

SpecFilter == InitFilter /\ [][NextFilter]_vars

\* One query over either pool with an installed repo, narrowed by filters
\* and excludes and reduced to its duplicated packages.
InitDup ==
    /\ installed = 1
    /\ sack \in {NewSack, [NewSack EXCEPT !.pool = "dup"]}
    /\ excludes = {}
    /\ considered = NullMap
    /\ queries = [i \in Queries |-> NewQuery("APPLY_EXCLUDES")]
    /\ goal = NewGoal
    /\ run = NoRun
    /\ last = Call("new", "q", OK)

NextDup ==
    \/ SackSetExcludes
    \/ AddFilter("q", FilterRequests)
    \/ Apply("q")
    \/ FilterDuplicated("q")

SpecDup == InitDup /\ [][NextDup]_vars

\* A Query and its copy over a sack whose regular excludes leave out the two
\* available packages that upgrade an installed one; the queries apply all
\* excludes or the regular ones only.
CopyFlags == {"APPLY_EXCLUDES", "IGNORE_MODULAR_EXCLUDES"}

CopyRequests ==
    {[mt |-> "num", keyname |-> "HY_PKG_UPGRADABLE", cmp_type |-> HY_EQ, num |-> 1,
      str |-> "", pset |-> {}],
     [mt |-> "num", keyname |-> "HY_PKG_DOWNGRADABLE", cmp_type |-> HY_EQ, num |-> 1,
      str |-> "", pset |-> {}],
     [mt |-> "str", keyname |-> "HY_PKG_NAME", cmp_type |-> HY_EQ, num |-> 0,
      str |-> "a", pset |-> {}]}

InitCopy ==
    /\ installed = 1
    /\ sack = NewSack
    /\ excludes = {4, 7}
    /\ considered = NullMap
    /\ queries \in {[i \in Queries |-> NewQuery(f)] : f \in CopyFlags}
    /\ goal = NewGoal
    /\ run = NoRun
    /\ last = Call("new", "q", OK)

\* Query other becomes a copy of Query q, by construction or by assignment.
Copy ==
    /\ queries' = [queries EXCEPT !["other"] = CopyQuery(queries["q"])]
    /\ last' = Call("copy", "other", OK)
    /\ UNCHANGED <<installed, sack, excludes, considered, goal, run>>

Assign ==
    /\ queries' = [queries EXCEPT !["other"] = AssignQuery(queries["other"], queries["q"])]
    /\ last' = Call("assign", "other", OK)
    /\ UNCHANGED <<installed, sack, excludes, considered, goal, run>>

NextCopy ==
    \/ \E i \in Queries : AddFilter(i, CopyRequests)
    \/ \E i \in Queries : Apply(i)
    \/ Copy
    \/ Assign

SpecCopy == InitCopy /\ [][NextCopy]_vars

-----------------------------------------------------------------------------
(* The state machine of the Goal.                                          *)

NameA == SltrFilter("HY_PKG_NAME", HY_EQ, <<"a">>)

\* The selectors handed to the Goal: well formed, empty, and ill formed.
GoalSelectors ==
    {[NoSelector EXCEPT !.name = NameA],
     [NoSelector EXCEPT !.name = NameA, !.arch = SltrFilter("HY_PKG_ARCH", HY_EQ, <<"x86_64">>)],
     [NoSelector EXCEPT !.name = NameA, !.arch = SltrFilter("HY_PKG_ARCH", HY_EQ, <<"zz">>)],
     [NoSelector EXCEPT !.name = SltrFilter("HY_PKG_NAME", HY_SUBSTR, <<"a">>)],
     [NoSelector EXCEPT !.name = NameA, !.evr = SltrFilter("HY_PKG_EVR", HY_EQ, <<"1-1", "2-1">>)],
     [NoSelector EXCEPT !.pkgs = {4}],
     [NoSelector EXCEPT !.pkgs = {4}, !.arch = SltrFilter("HY_PKG_ARCH", HY_EQ, <<"x86_64">>)],
     [NoSelector EXCEPT !.arch = SltrFilter("HY_PKG_ARCH", HY_EQ, <<"x86_64">>)],
     [NoSelector EXCEPT !.reponame = SltrFilter("HY_PKG_REPONAME", HY_EQ, <<"hi">>)],
     NoSelector}

\* A call on the Goal that went through sltrToJob or packageToJob: r is what
\* the call left, recompute tells whether pool->considered was recomputed.
\* A failed assertion ends the process.
GoalStep(op, sltr, r, recompute) ==
    /\ last.rc # ASSERT_FAILED
    /\ Len(r.goal.staging) <= MaxStaging
    /\ goal' = r.goal
    /\ considered' = IF recompute THEN RecomputeConsidered(excludes) ELSE considered
    /\ last' = GoalCall(op, r.rc, sltr)
    /\ UNCHANGED <<installed, sack, excludes, queries, run>>

InstallSltr(selectors) ==
    \E sltr \in selectors, optional, ndebug \in BOOLEAN :
        GoalStep("install", sltr, goalInstallSltr(goal, sltr, optional, ndebug),
                 any_req_filter(sltr))

EraseSltr(selectors) ==
    \E sltr \in selectors, flags \in {{}, {"HY_CLEAN_DEPS"}}, ndebug \in BOOLEAN :
        GoalStep("erase", sltr, goalEraseSltr(goal, sltr, flags, ndebug),
                 any_req_filter(sltr))

UpgradeSltr(selectors) ==
    \E sltr \in selectors, ndebug \in BOOLEAN :
        GoalStep("upgrade", sltr, goalUpgradeSltr(goal, sltr, ndebug), any_req_filter(sltr))

DistupgradeSltr(selectors) ==
    \E sltr \in selectors, ndebug \in BOOLEAN :
        GoalStep("distupgrade", sltr, goalDistupgradeSltr(goal, sltr, ndebug),
                 any_req_filter(sltr))

DistupgradeAll ==
    GoalStep("distupgrade_all", NoSelector, goalDistupgradeAll(goal, considered, FALSE), TRUE)

InstallPkg ==
    \E pkg \in {4}, optional \in BOOLEAN :
        GoalStep("install_pkg", NoSelector, goalInstallPkg(goal, pkg, optional), TRUE)

ErasePkg ==
    \E pkg \in {2}, flags \in {{}, {"HY_CLEAN_DEPS"}} :
        GoalStep("erase_pkg", NoSelector, goalErasePkg(goal, pkg, flags), FALSE)

UpgradeAll == GoalStep("upgrade_all", NoSelector, goalUpgradeAll(goal), FALSE)

UpgradePkg ==
    \E pkg \in {4} : GoalStep("upgrade_pkg", NoSelector, goalUpgradePkg(goal, pkg), TRUE)

DistupgradePkg ==
    \E pkg \in {4} :
        GoalStep("distupgrade_pkg", NoSelector, goalDistupgradePkg(goal, pkg), TRUE)

Mark ==
    \E m \in {<<"SOLVER_LOCK", 2>>, <<"SOLVER_FAVOR", 4>>, <<"SOLVER_DISFAVOR", 4>>,
              <<"SOLVER_USERINSTALLED", 2>>} :
        GoalStep("mark", NoSelector, goalMark(goal, m[1], m[2]), FALSE)

\* The policy setters: they touch nothing but their field.
PolicyStep(op, g) ==
    /\ last.rc # ASSERT_FAILED
    /\ g # goal
    /\ goal' = g
    /\ last' = GoalCall(op, OK, NoSelector)
    /\ UNCHANGED <<installed, sack, excludes, considered, queries, run>>

SetProtected == \E pset \in {{2}, {}} : PolicyStep("setProtected", setProtected(goal, pset))

AddProtected == \E pset \in {{3}} : PolicyStep("addProtected", addProtected(goal, pset))

SetProtectRunningKernel ==
    \E value \in BOOLEAN :
        PolicyStep("set_protect_running_kernel", set_protect_running_kernel(goal, value))

AddExcludeFromWeak ==
    \E pkg \in {5} : PolicyStep("add_exclude_from_weak", add_exclude_from_weak(goal, pkg))

ResetExcludeFromWeak == PolicyStep("reset_exclude_from_weak", reset_exclude_from_weak(goal))

\* The flags run is called with.
RunFlags ==
    {{}, {"DNF_ALLOW_UNINSTALL"}, {"DNF_FORCE_BEST", "DNF_IGNORE_WEAK"}, {"DNF_VERIFY"}}

\* What the solver can answer: unsolvable or solved, with the packages it
\* keeps or installs and the removals of the transaction.
DecidedChoices == {{2, 3, 5}, {2, 3, 4}, {2, 3, 4, 7}}
TransChoices == {[erase |-> {}, obsoleted |-> {}], [erase |-> {2}, obsoleted |-> {3}]}
\* The rule infos of a problem of an unsolvable job: conflicting requests;
\* an installed package whose requirement cannot be met (one rule info
\* comes twice); rule infos that differ and are rendered alike; the rule
\* infos of another problem in another order.
ProblemJob == <<RuleInfo("SOLVER_RULE_JOB", 0, 0, 0)>>
ProblemRequires ==
    <<RuleInfo("SOLVER_RULE_PKG_REQUIRES", 2, 0, 1),
      RuleInfo("SOLVER_RULE_PKG_CONFLICTS", 4, 3, 1),
      RuleInfo("SOLVER_RULE_PKG_REQUIRES", 2, 0, 1)>>
ProblemAlike ==
    <<RuleInfo("SOLVER_RULE_DISTUPGRADE", 4, 0, 0),
      RuleInfo("SOLVER_RULE_JOB", 0, 0, 0),
      RuleInfo("SOLVER_RULE_INFARCH", 4, 0, 0),
      RuleInfo("SOLVER_RULE_JOB", 4, 0, 0)>>
ProblemSwapped == <<ProblemRequires[2], ProblemRequires[1]>>
ProblemChoices ==
    {<<ProblemJob>>, <<ProblemRequires>>, <<ProblemAlike, ProblemRequires>>,
     <<ProblemRequires, <<ProblemRequires[2]>>, ProblemSwapped, ProblemJob>>}
SolverAnswers ==
    {[SolverAnswer(Len(r), {}, 0, [erase |-> {}, obsoleted |-> {}]) EXCEPT !.rules = r] :
        r \in ProblemChoices}
    \cup {SolverAnswer(0, d, p2, tr) : d \in DecidedChoices, p2 \in {0, 1}, tr \in TransChoices}

Run(flagChoices, answers) ==
    /\ last.rc # ASSERT_FAILED
    /\ \E flags \in flagChoices, ans \in answers :
          \E r \in goalRun(goal, sack, considered, RecomputeConsidered(excludes), flags, ans) :
              /\ goal' = r.goal
              /\ run' = r.run
    /\ considered' = RecomputeConsidered(excludes)
    /\ last' = GoalCall("run", OK, NoSelector)
    /\ UNCHANGED <<installed, sack, excludes, queries>>

\* One Goal over a sack with an installed repo: every way of staging,
\* accepted or rejected, and runs.
InitGoal ==
    /\ Init
    /\ installed = 1
    /\ queries = [i \in Queries |-> NewQuery("APPLY_EXCLUDES")]

\* Staging through selectors, accepted or rejected.
NextSltr ==
    \/ InstallSltr(GoalSelectors)
    \/ EraseSltr(GoalSelectors)
    \/ UpgradeSltr(GoalSelectors)
    \/ DistupgradeSltr(GoalSelectors)

SpecSltr == InitGoal /\ [][NextSltr]_vars

\* The selectors of the intents machine: one accepted, one rejected.
FewSelectors ==
    {sltr \in GoalSelectors :
        /\ sltr.pkgs = {} /\ ~sltr.evr.set /\ ~sltr.reponame.set
        /\ sltr.name.set => sltr.name.cmp_type = HY_EQ /\ ~sltr.arch.set}

\* Every intent and runs whose flags differ; the solver finds no solution.
NextGoal ==
    \/ InstallSltr(FewSelectors)
    \/ UpgradeSltr(FewSelectors)
    \/ DistupgradeAll
    \/ InstallPkg
    \/ ErasePkg
    \/ UpgradeAll
    \/ UpgradePkg
    \/ DistupgradePkg
    \/ Mark
    \/ Run(RunFlags, {SolverAnswer(1, {}, 0, [erase |-> {}, obsoleted |-> {}])})

SpecGoal == InitGoal /\ [][NextGoal]_vars

\* Runs of a Goal under every install-only limit, with all the answers of
\* the solver.
InitRun ==
    /\ installed = 1
    /\ sack \in {[NewSack EXCEPT !.installonly_limit = limit] : limit \in 0..MaxLimit}
    /\ excludes = {}
    /\ considered = NullMap
    /\ queries = [i \in Queries |-> NewQuery("APPLY_EXCLUDES")]
    /\ goal = NewGoal
    /\ run = NoRun
    /\ last = Call("new", "", OK)

\* The policy of the Goal is set before its first run.
Configure ==
    /\ ~goal.solv.present
    /\ (SetProtected \/ AddProtected \/ SetProtectRunningKernel \/ AddExcludeFromWeak)

NextRun ==
    \/ InstallPkg
    \/ Configure
    \/ Run({{}, {"DNF_ALLOW_UNINSTALL", "DNF_IGNORE_WEAK"}}, SolverAnswers)

SpecRun == InitRun /\ [][NextRun]_vars

\* Runs over the large pool under every install-only limit above 0: what the
\* solver decided ranges over sets with and without packages to install,
\* with and without the running kernel, with one and with two names.
InitTrim ==
    /\ installed = 1
    /\ sack \in {[NewSack EXCEPT !.pool = "dup", !.installonly_limit = limit] :
                    limit \in 1..MaxLimit}
    /\ excludes = {}
    /\ considered = NullMap
    /\ queries = [i \in Queries |-> NewQuery("APPLY_EXCLUDES")]
    /\ goal = NewGoal
    /\ run = NoRun
    /\ last = Call("new", "", OK)

TrimDecided ==
    {{2, 3, 4, 5, 6, 7, 8}, {2, 3, 4, 5, 6, 7, 8, 9}, {2, 3, 4, 5, 6, 7, 9, 10},
     {3, 9}, {2, 4, 6, 9}, {2, 6, 9}}

TrimAnswers ==
    {SolverAnswer(1, {}, 0, [erase |-> {}, obsoleted |-> {}])}
    \cup {SolverAnswer(0, d, p2, [erase |-> {}, obsoleted |-> {}]) :
              d \in TrimDecided, p2 \in {0, 1}}

NextTrim ==
    \/ InstallPkg
    \/ SetProtectRunningKernel
    \/ Run({{}}, TrimAnswers)

SpecTrim == InitTrim /\ [][NextTrim]_vars

\* A Goal over a sack whose pool holds no package and no repo: there is no
\* installed repo and no running kernel (the strings of the selectors are
\* interned all the same).
InitEmpty ==
    /\ installed = 0
    /\ sack \in {[NewSack EXCEPT !.pool = "empty", !.running_kernel = 0,
                                 !.installonly_limit = limit] : limit \in 0..MaxLimit}
    /\ excludes = {}
    /\ considered = NullMap
    /\ queries = [i \in Queries |-> NewQuery("APPLY_EXCLUDES")]
    /\ goal = NewGoal
    /\ run = NoRun
    /\ last = Call("new", "", OK)

\* solver_solve and solver_create_transaction on a pool without packages:
\* nothing is decided and the transaction is empty; a job that asks for no
\* installation has no problem, a request to install may have one.
EmptyPoolAnswers(g) ==
    {SolverAnswer(0, {}, 0, [erase |-> {}, obsoleted |-> {}])}
    \cup (IF \E i \in DOMAIN g.staging : "SOLVER_INSTALL" \in g.staging[i].how
          THEN {SolverAnswer(1, {}, 0, [erase |-> {}, obsoleted |-> {}])}
          ELSE {})

\* Staging by name or for all packages (there is no package to hand over),
\* the kernel policy, and runs.
NextEmpty ==
    \/ InstallSltr(FewSelectors)
    \/ DistupgradeAll
    \/ UpgradeAll
    \/ SetProtectRunningKernel
    \/ Run({{}, {"DNF_ALLOW_UNINSTALL", "DNF_IGNORE_WEAK"}}, EmptyPoolAnswers(goal))

SpecEmpty == InitEmpty /\ [][NextEmpty]_vars

\* Runs of one Goal between changes of its policy and of the excludes of
\* the sack, with and without an install-only limit.
InitPolicy ==
    /\ installed = 1
    /\ sack \in {[NewSack EXCEPT !.installonly_limit = limit] : limit \in {0, 1}}
    /\ excludes = {}
    /\ considered = NullMap
    /\ queries = [i \in Queries |-> NewQuery("APPLY_EXCLUDES")]
    /\ goal = NewGoal
    /\ run = NoRun
    /\ last = Call("new", "", OK)

PolicyFlags == {{}, {"DNF_ALLOW_UNINSTALL"}}

PolicyAnswers ==
    {[SolverAnswer(1, {}, 0, [erase |-> {}, obsoleted |-> {}]) EXCEPT !.rules = <<ProblemJob>>]}
    \cup {SolverAnswer(0, {2, 3, 4}, p2, tr) : p2 \in {0, 1}, tr \in TransChoices}

NextPolicy ==
    \/ SackSetExcludes
    \/ SetProtected
    \/ SetProtectRunningKernel
    \/ Run(PolicyFlags, PolicyAnswers)

SpecPolicy == InitPolicy /\ [][NextPolicy]_vars

\* Runs of one Goal with every kind of run flag between its staging calls,
\* with and without an install-only limit.
InitFrame == InitPolicy

FrameFlags ==
    {{}, {"DNF_ALLOW_UNINSTALL", "DNF_VERIFY"}, {"DNF_FORCE_BEST", "DNF_IGNORE_WEAK"}}

FrameAnswers ==
    {[SolverAnswer(1, {}, 0, [erase |-> {}, obsoleted |-> {}]) EXCEPT !.rules = <<ProblemJob>>],
     SolverAnswer(0, {2, 3, 4}, 0, [erase |-> {}, obsoleted |-> {}])}

NextFrame ==
    \/ InstallPkg
    \/ ErasePkg
    \/ AddExcludeFromWeak
    \/ Run(FrameFlags, FrameAnswers)

SpecFrame == InitFrame /\ [][NextFrame]_vars

\* A Goal that is staged, configured and run, and then replaced by a copy
\* of itself, which is configured and run in turn.
GoalCopy ==
    /\ last.rc # ASSERT_FAILED
    /\ goal' = CopyGoal(goal)
    /\ last' = GoalCall("copy", OK, NoSelector)
    /\ UNCHANGED <<installed, sack, excludes, considered, queries, run>>

InitGoalCopy == InitPolicy /\ sack.installonly_limit = 0

NextGoalCopy ==
    \/ InstallPkg
    \/ SetProtected
    \/ SetProtectRunningKernel
    \/ AddExcludeFromWeak
    \/ Run(PolicyFlags, PolicyAnswers)
    \/ GoalCopy

SpecGoalCopy == InitGoalCopy /\ [][NextGoalCopy]_vars

-----------------------------------------------------------------------------
(* Properties of the Query.                                                *)

\* The package solvables a query of the given mode may hold under the sack's
\* present excludes.
ConsideredPkgs(flags) == AndNullable(PkgSolvables, RecomputeConsideredMap(flags, excludes))

\* The result of a query holds only considered package solvables (a query
\* that has no result yet holds none).
WithinConsidered(qr) == qr.result.null \/ qr.result.map \subseteq ConsideredPkgs("APPLY_EXCLUDES")

C2_ApplyIdempotent ==
    [][last'.op = "apply" =>
         LET old == queries[last'.q]
             new == queries'[last'.q]
         IN  /\ new.applied
             /\ new.filters = <<>>
             /\ old.applied => new.result = old.result]_vars

\* A filtered and then narrowed Query has just been applied.
C2_Witness ==
    /\ last.op = "apply"
    /\ last.q = "q"
    /\ queries["q"].applied
    /\ queries["q"].result.map # ConsideredPkgs(queries["q"].flags)
    /\ queries["q"].result.map # {}

\* The first result of a Query: the package solvables its mode leaves
\* considered now.
FreshResult(qr) == ConsideredPkgs(qr.flags)

\* C3 as stated: a successful addFilter on an applied Query clears the
\* applied bit, and the next apply computes the result from the pool's
\* package solvables and considered set as they are then.
C3_ReapplyFromPool ==
    [][LET old == queries["q"]
           new == queries'["q"]
       IN  /\ (last'.op = "addFilter" /\ last'.rc = OK /\ old.applied) => ~new.applied
           /\ (last'.op = "apply" /\ ~old.applied)
              => new.result.map
                    = ApplyFilters(new, considered', old.filters, FreshResult(old))]_vars

\* C3 amended: a successful addFilter on an applied Query stores the filter
\* and clears the applied bit, but for a NEVRA_STRICT filter, which is
\* matched at once against the result and leaves the Query applied; the
\* next apply narrows the result kept from before by the pending filters
\* only, and reads the pool and its considered set only when the Query has
\* no result yet.
C3_ReapplyNarrowsKeptResult ==
    [][LET old == queries["q"]
           new == queries'["q"]
       IN  /\ (last'.op = "addFilter" /\ last'.rc = OK /\ old.applied)
              => \/ /\ ~new.applied
                    /\ Len(new.filters) = Len(old.filters) + 1
                    /\ new.result = old.result
                 \/ /\ new.applied
                    /\ new.filters = old.filters
                    /\ new.result.map \subseteq old.result.map
           /\ (last'.op = "apply" /\ ~old.applied)
              => new.result.map =
                    ApplyFilters(new, considered', old.filters,
                                 IF old.result.null THEN FreshResult(old) ELSE old.result.map)]_vars

\* A re-opened Query was applied and holds a result that no single filter on
\* the whole pool gives: the latest of the installed packages.
C3_Witness ==
    /\ last.op = "apply"
    /\ queries["q"].applied
    /\ queries["q"].result.map = {3}
    /\ filterLatestNum("HY_PKG_LATEST", 1, FreshResult(queries["q"])) # queries["q"].result.map

\* What installed() leaves of a Query, what available() leaves of a copy of
\* it, and the result R both start from.
InstalledOf(qr) == queryInstalled(qr, considered).q.result.map
AvailableOf(qr) == queryAvailable(CopyQuery(qr), considered).q.result.map
AppliedResult(qr) == apply(qr, considered).q.result.map

Partition(qr) ==
    /\ InstalledOf(qr) \cap AvailableOf(qr) = {}
    /\ InstalledOf(qr) \cup AvailableOf(qr) = AppliedResult(qr)
    /\ installed = 0 => InstalledOf(qr) = {} /\ AvailableOf(qr) = AppliedResult(qr)

Unfiltered(qr) == qr.result.null /\ qr.filters = <<>>

\* C4 as stated: installed() and available() partition the result R of a
\* Query, which for the unfiltered Query is all the real package solvables;
\* without an installed repo installed() is empty and available() is R.
C4_PartitionAllPackages ==
    /\ Partition(queries["q"])
    /\ Unfiltered(queries["q"]) => AppliedResult(queries["q"]) = PkgSolvables

\* C4 amended: installed() and available() partition the result R of a
\* Query; for the unfiltered Query R is the real package solvables that the
\* Query's exclude mode leaves considered (all of them only when nothing is
\* excluded); without an installed repo installed() is empty and
\* available() is R.
C4_PartitionConsideredPackages ==
    /\ Partition(queries["q"])
    /\ Unfiltered(queries["q"]) => AppliedResult(queries["q"]) = FreshResult(queries["q"])

\* installed() has just split off the installed part of a result that has
\* available packages too.
C4_Witness ==
    /\ last.op = "installed"
    /\ installed # 0
    /\ queries["q"].result.map # {}
    /\ AvailableOf(queries["other"]) # {}
    /\ InstalledOf(queries["other"]) # {}

LatestKeynames ==
    {"HY_PKG_LATEST", "HY_PKG_LATEST_PER_ARCH", "HY_PKG_LATEST_PER_ARCH_BY_PRIORITY"}

\* The match sets of latest N and latest -N on R are disjoint and cover S.
LatestSplit(keyname, N, R, S) ==
    /\ filterLatestNum(keyname, N, R) \cap filterLatestNum(keyname, -N, R) = {}
    /\ filterLatestNum(keyname, N, R) \cup filterLatestNum(keyname, -N, R) = S

\* The solvables of R that sit, within their name and arch, in a repo of the
\* highest priority found there.
HighestPriority(R) ==
    {p \in R : \A x \in R :
        (Pool[x].name = Pool[p].name /\ Pool[x].arch = Pool[p].arch)
        => Repos[Pool[x].repo].priority <= Repos[Pool[p].repo].priority}

\* C5 as stated: for LATEST, LATEST_PER_ARCH and LATEST_PER_ARCH_BY_PRIORITY
\* and every N > 0, the match sets of N and of -N on the same result R are
\* disjoint and their union is R.
C5_LatestSplitsResult ==
    \A keyname \in LatestKeynames, N \in 1..MaxLatest :
        ~queries["q"].result.null
        => LatestSplit(keyname, N, queries["q"].result.map, queries["q"].result.map)

\* C5 amended: for LATEST and LATEST_PER_ARCH the match sets of N and -N on
\* R are disjoint and their union is R; for LATEST_PER_ARCH_BY_PRIORITY they
\* are disjoint and their union is the part of R that lies, per name and
\* arch, in the repo of the highest priority: the solvables of the other
\* repos are in neither match set.
C5_LatestSplitsHighestPriority ==
    \A keyname \in LatestKeynames, N \in 1..MaxLatest :
        ~queries["q"].result.null
        => LatestSplit(keyname, N, queries["q"].result.map,
                       IF keyname = "HY_PKG_LATEST_PER_ARCH_BY_PRIORITY"
                       THEN HighestPriority(queries["q"].result.map)
                       ELSE queries["q"].result.map)

\* A latest filter was applied, and the result it leaves holds a name and
\* arch found in repos of two priorities, with both match sets non-empty.
C5_Witness ==
    /\ last.op = "apply"
    /\ ~queries["q"].result.null
    /\ HighestPriority(queries["q"].result.map) # queries["q"].result.map
    /\ \E keyname \in LatestKeynames :
          /\ filterLatestNum(keyname, 1, queries["q"].result.map) # {}
          /\ filterLatestNum(keyname, -1, queries["q"].result.map) # {}

\* C7: an addFilter that returns BAD_QUERY leaves the Query as it was: no
\* filter stored, filter list, result and applied bit unchanged.
C7_BadQueryLeavesQuery ==
    [][(last'.op = "addFilter" /\ last'.rc = DNF_ERROR_BAD_QUERY) => queries' = queries]_vars

\* A rejected addFilter on a Query that is applied and holds a result.
C7_Witness ==
    /\ last.op = "addFilter"
    /\ last.rc = DNF_ERROR_BAD_QUERY
    /\ queries["q"].applied
    /\ queries["q"].result.map # {}

-----------------------------------------------------------------------------
(* Properties of the Goal.                                                 *)

\* The action bits of each intent.
IntentBits(op) ==
    CASE op \in {"install", "install_pkg"} -> {"DNF_INSTALL", "DNF_ALLOW_DOWNGRADE"}
      [] op \in {"erase", "erase_pkg"} -> {"DNF_ERASE"}
      [] op \in {"upgrade", "upgrade_pkg"} -> {"DNF_UPGRADE"}
      [] op = "upgrade_all" -> {"DNF_UPGRADE_ALL"}
      [] op \in {"distupgrade", "distupgrade_pkg", "distupgrade_all"} ->
            {"DNF_DISTUPGRADE", "DNF_ALLOW_DOWNGRADE"}
      [] OTHER -> {}

\* C6 as stated: the actions bitset is the union of the bits of the intents
\* called on the Goal and nothing else: a call adds the bits of its intent,
\* and a call that is no intent adds none.
C6_ActionsMirrorIntents ==
    [][goal'.actions = goal.actions \cup IntentBits(last'.op)]_vars

\* C6 amended: hasActions(X) is true if and only if an intent that sets X
\* was called (whether or not its selector was accepted) or run was called
\* with X among its flags: a call adds the bits of its intent, run adds its
\* flags, and nothing else changes the bitset.
C6_ActionsMirrorIntentsAndRunFlags ==
    [][goal'.actions = goal.actions \cup IntentBits(last'.op)
                       \cup (IF last'.op = "run" THEN run'.flags ELSE {})]_vars

\* A Goal with an install staged was run with flags.
C6_Witness ==
    /\ last.op = "run"
    /\ goal.staging # <<>>
    /\ hasActions(goal, {"DNF_INSTALL"})
    /\ run.flags # {}
    /\ hasActions(goal, run.flags)

SltrOps == {"install", "erase", "upgrade", "distupgrade"}

\* C8: a selector with an arch, evr or reponame filter but without name,
\* provides, file and pkgs is rejected with BAD_SELECTOR; a selector with no
\* filter at all is accepted and nothing is appended to the job.
C8_OptionalOnlyRejected ==
    [][last'.op \in SltrOps =>
         /\ (any_opt_filter(last'.sltr) /\ ~any_req_filter(last'.sltr))
            => last'.rc = DNF_ERROR_BAD_SELECTOR
         /\ (~any_opt_filter(last'.sltr) /\ ~any_req_filter(last'.sltr))
            => last'.rc = OK /\ goal'.staging = goal.staging]_vars

\* A selector of optional filters only was rejected by a Goal that has a
\* tuple staged.
C8_Witness ==
    /\ last.op \in SltrOps
    /\ any_opt_filter(last.sltr)
    /\ ~any_req_filter(last.sltr)
    /\ last.rc = DNF_ERROR_BAD_SELECTOR
    /\ goal.staging # <<>>

\* C9 as stated: an install, erase, upgrade or distupgrade whose selector is
\* rejected with BAD_SELECTOR leaves the staging queue, the actions bitset,
\* the protected set and the weak-exclude set as they were.
C9_RejectedCallLeavesGoal ==
    [][(last'.op \in SltrOps /\ last'.rc = DNF_ERROR_BAD_SELECTOR) =>
         /\ goal'.staging = goal.staging
         /\ goal'.actions = goal.actions
         /\ goal'.protectedPkgs = goal.protectedPkgs
         /\ goal'.exclude_from_weak = goal.exclude_from_weak]_vars

\* C10: with an installonly_limit of 0 a run hands the job to the solver
\* once and appends no install-only INSTALL or ERASE tuple to it: the job at
\* the end of the run is the job that was solved first.
C10_NoLimitNoTrim ==
    (last.op = "run" /\ sack.installonly_limit = 0)
    => /\ Len(run.jobs) = 1
       /\ run.job = run.jobs[1]
       /\ Len(run.job) = Len(run.constructed)

\* A run under limit 0 that the solver solved with four install-only
\* packages kept or installed, two of them new.
C10_Witness ==
    /\ last.op = "run"
    /\ sack.installonly_limit = 0
    /\ ~run.ret
    /\ goal.solv.problems = 0
    /\ Cardinality(goal.solv.decided \cap WhatProvides(sack.installonly[1])) = 4
    /\ goal.trans.present

-----------------------------------------------------------------------------
(* Properties of run and of the result accessors.                          *)

\* Nothing is protected: no protected set or an empty one, and the running
\* kernel is not protected.
NothingProtected(g) ==
    (g.protectedPkgs.null \/ g.protectedPkgs.map = {}) /\ ~g.protect_running_kernel

\* C11: when the protected set is empty or unset and protect_running_kernel
\* is false, protectedInRemovals is false for every transaction, and a run
\* whose solver calls all found a solution does not report failure.
C11_NothingProtectedNoFailure ==
    NothingProtected(goal)
    => /\ \A tr \in TransChoices :
             ~protectedInRemovals([goal EXCEPT !.trans = [present |-> TRUE,
                                                          erase |-> tr.erase,
                                                          obsoleted |-> tr.obsoleted]],
                                  sack).ret
       /\ (last.op = "run" /\ goal.solv.problems = 0) => ~run.ret

\* A solved run with nothing protected whose transaction erases a package
\* and obsoletes the running kernel.
C11_Witness ==
    /\ last.op = "run"
    /\ NothingProtected(goal)
    /\ goal.trans.present
    /\ sack.running_kernel \in goal.trans.erase \cup goal.trans.obsoleted
    /\ ~run.ret

\* What the transaction takes away, and what is protected from removal.
Removed(g) == g.trans.erase \cup g.trans.obsoleted
ProtectedSet(g, sk) ==
    g.protectedPkgs.map \cup (IF g.protect_running_kernel THEN {sk.running_kernel} ELSE {})

\* C12: when the solver found a solution whose erased or obsoleted packages
\* include a protected package or the protected running kernel, run reports
\* failure, removalOfProtected is exactly the removed packages that are
\* protected, countProblems is 1 and describeProblemRules(0) is the one
\* sentence that names them.
C12_ProtectedRemovalIsAProblem ==
    (last.op = "run" /\ goal.trans.present
     /\ Removed(goal) \cap ProtectedSet(goal, sack) # {})
    => /\ run.ret
       /\ goal.removalOfProtected = MapOf(Removed(goal) \cap ProtectedSet(goal, sack))
       /\ countProblems(goal) = 1
       /\ describeProblemRules(goal, sack, 0)
          = <<ProtectedSentence(Removed(goal) \cap ProtectedSet(goal, sack))>>

\* A run whose transaction erases a protected package and obsoletes the
\* protected running kernel.
C12_Witness ==
    /\ last.op = "run"
    /\ goal.trans.present
    /\ goal.trans.erase \cap goal.protectedPkgs.map # {}
    /\ goal.protect_running_kernel
    /\ sack.running_kernel \in goal.trans.obsoleted
    /\ Cardinality(goal.removalOfProtected.map) = 2
    /\ run.ret

\* C13 as stated: after a run that failed, each of the six result lists
\* raises a typed error and returns no packages: REMOVAL_OF_PROTECTED_PKG
\* when the solver had a solution and the transaction would remove a
\* protected package, NO_SOLUTION when the solver found no solution.
C13_FailedRunRaisesTypedError ==
    (last.op = "run" /\ run.ret)
    => \A type_filter \in ListTypes :
          goalListResults(goal, type_filter)
          = [rc |-> IF goal.solv.problems = 0 THEN DNF_ERROR_REMOVAL_OF_PROTECTED_PKG
                    ELSE DNF_ERROR_NO_SOLUTION,
             pkgs |-> {}]

\* C14 as stated: on a Goal that was never run, the six result lists, the
\* unneeded and the suggested lists and the problem count all surface
\* INTERNAL_ERROR.
C14_NeverRunSurfacesInternalError ==
    ~goal.solv.present
    => /\ \A type_filter \in ListTypes :
             goalListResults(goal, type_filter).rc = DNF_ERROR_INTERNAL_ERROR
       /\ \A r \in listUnneeded(goal) : r.rc = DNF_ERROR_INTERNAL_ERROR
       /\ \A r \in listSuggested(goal) : r.rc = DNF_ERROR_INTERNAL_ERROR
       /\ \A ndebug \in BOOLEAN :
             \A r \in goalCountProblems(goal, ndebug) : r.rc = DNF_ERROR_INTERNAL_ERROR

\* The staging queue asks for an installation.
StagedInstall(g) == \E i \in DOMAIN g.staging : "SOLVER_INSTALL" \in g.staging[i].how

C16_RunningKernelNeverTrimmed ==
    (last.op = "run" /\ sack.installonly_limit >= 1)
    => \A i \in DOMAIN run.job :
          ~(/\ run.job[i].how = {"SOLVER_ERASE", "SOLVER_SOLVABLE"}
            /\ run.job[i].id = sack.running_kernel)

\* The installed solvables of q's result as filterDuplicated finds them:
\* q applied and cut down to the installed repo.
PriorInstalled == queryInstalled(queries["q"], considered).q.result.map

\* C17 (amended): filterDuplicated leaves exactly the installed solvables of
\* the prior result that have another installed solvable of their name in
\* that result whose evr differs, or whose evr and arch are both the same.
C17_DuplicatedPairs ==
    [][(last'.op = "filterDuplicated")
       => queries'["q"].result
          = MapOf({p \in PriorInstalled :
                      \E o \in PriorInstalled \ {p} :
                          /\ Pool[o].name = Pool[p].name
                          /\ \/ Pool[o].evr # Pool[p].evr
                             \/ Pool[o].arch = Pool[p].arch})]_vars

\* filterDuplicated has left the two installed b-1-1.noarch, a name with a
\* single evr, and nothing else.
C17_Witness ==
    /\ last.op = "filterDuplicated"
    /\ sack.pool = "dup"
    /\ queries["q"].result = MapOf({7, 8})
    /\ Pool[7].evr = Pool[8].evr

\* C17 as stated: filterDuplicated leaves exactly the installed solvables of
\* the prior result whose name has at least two distinct evrs among them.
C17_DuplicatedDistinctEvrs ==
    [][(last'.op = "filterDuplicated")
       => queries'["q"].result
          = MapOf({p \in PriorInstalled :
                      Cardinality({Pool[o].evr : o \in {x \in PriorInstalled :
                                                          Pool[x].name = Pool[p].name}}) >= 2})]_vars

\* A job that is another one with tuples appended.
Extends(long, short) ==
    Len(long) > Len(short) /\ SubSeq(long, 1, Len(short)) = short

\* C18 (amended): within run the solver is called once or twice.  When the
\* first solve fails, the job is not extended and the solver is not called
\* again.  The second call happens exactly when the first solve succeeded
\* and the install-only limiting extended the job (which takes a limit
\* above 0 and gives at least one ERASE|SOLVABLE tuple); the second job is
\* the extended one.
C18_SecondSolveAfterSuccess ==
    (last.op = "run")
    => /\ Len(run.jobs) \in 1 .. 2
       /\ Len(run.solved) = Len(run.jobs)
       /\ run.solved[1] # 0 => Len(run.jobs) = 1 /\ run.job = run.jobs[1] /\ run.ret
       /\ Len(run.jobs) = 2 <=> (run.solved[1] = 0 /\ run.job # run.jobs[1])
       /\ Len(run.jobs) = 2
          => /\ sack.installonly_limit > 0
             /\ run.jobs[2] = run.job
             /\ Extends(run.jobs[2], run.jobs[1])
             /\ \E i \in DOMAIN run.job :
                   i > Len(run.jobs[1]) /\ run.job[i].how = {"SOLVER_ERASE", "SOLVER_SOLVABLE"}

\* A run that solved, limited the install-only packages and solved again.
C18_Witness ==
    /\ last.op = "run"
    /\ run.solved = <<0, 0>>
    /\ Len(run.jobs) = 2
    /\ Extends(run.jobs[2], run.jobs[1])

\* C18 as stated: the limiting and the second solver call happen only when
\* the first solve returned failure; when the first solve succeeds the job
\* is not extended and the solver is called once; never more than twice.
C18_SecondSolveAfterFailure ==
    (last.op = "run")
    => /\ Len(run.jobs) <= 2
       /\ Len(run.jobs) = 2 => run.solved[1] # 0
       /\ run.solved[1] = 0 => Len(run.jobs) = 1 /\ run.job = run.jobs[1]

\* The decided providers of an install-only dependency after a first solve
\* that succeeded, and their same-name runs.
DecidedProviders(dep) == {p \in WhatProvides(dep) : p \in goal.solv.decided}
SameNameRun(dep, name) == {p \in DecidedProviders(dep) : Pool[p].name = name}

\* The place of a package in the order of keeping: not yet installed, the
\* running kernel and what depends on it, the running kernel's evr, the rest.
KeepClass(p) ==
    IF Pool[p].repo # installed THEN 0
    ELSE IF p = sack.running_kernel
            \/ \E d \in Requires(p) : sack.running_kernel \in WhatProvides(d) THEN 1
    ELSE IF Pool[p].evr = Pool[sack.running_kernel].evr THEN 2
    ELSE 3

\* a comes strictly before b in the order of keeping.
KeptBefore(a, b) ==
    \/ KeepClass(a) < KeepClass(b)
    \/ KeepClass(a) = 3 /\ KeepClass(b) = 3 /\ Pool[a].evr > Pool[b].evr

\* The positions of the tuples that the limiting appended to the job, and
\* those that give an action to a package.
TrimPositions == {i \in DOMAIN run.job : i > Len(run.jobs[1])}
TrimTuples(action, p) ==
    {i \in TrimPositions : run.job[i].how = {action, "SOLVER_SOLVABLE"} /\ run.job[i].id = p}

\* C19: in a run whose install-only limiting is in effect (limit above 0,
\* first solve succeeded), for each install-only dependency whose decided
\* providers number more than the limit and include a package not yet
\* installed, every same-name run longer than the limit gets one tuple per
\* id, INSTALL|SOLVABLE for exactly limit ids and ERASE|SOLVABLE for the
\* others, and no id that gets ERASE comes before an id that gets INSTALL
\* in the order of keeping; a run of at most limit ids gets no tuple, and
\* so does every run of a dependency of which nothing is to be installed or
\* with at most limit providers.
C19_TrimKeepsFirstLimit ==
    (last.op = "run" /\ sack.installonly_limit >= 1 /\ run.solved[1] = 0)
    => \A k \in DOMAIN sack.installonly :
          LET dep == sack.installonly[k]
              q == DecidedProviders(dep)
              applies == /\ Cardinality(q) > sack.installonly_limit
                         /\ \E p \in q : Pool[p].repo # installed
          IN  \A p \in q :
                 LET same_names == SameNameRun(dep, Pool[p].name)
                     installs == {x \in same_names : TrimTuples("SOLVER_INSTALL", x) # {}}
                     erases == {x \in same_names : TrimTuples("SOLVER_ERASE", x) # {}}
                 IN  IF applies /\ Cardinality(same_names) > sack.installonly_limit
                     THEN /\ Cardinality(installs) = sack.installonly_limit
                          /\ erases = same_names \ installs
                          /\ Cardinality(TrimTuples("SOLVER_INSTALL", p)
                                         \cup TrimTuples("SOLVER_ERASE", p)) = 1
                          /\ \A x \in installs, y \in erases : ~KeptBefore(y, x)
                     ELSE installs = {} /\ erases = {}

\* A run that kept a package not yet installed and one with the running
\* kernel's evr, and erased two of the rest; another name's run got nothing.
C19_Witness ==
    /\ last.op = "run" /\ sack.installonly_limit = 2 /\ run.solved[1] = 0
    /\ goal.solv.decided = {2, 4, 6, 9}
    /\ TrimTuples("SOLVER_INSTALL", 9) # {} /\ TrimTuples("SOLVER_INSTALL", 4) # {}
    /\ TrimTuples("SOLVER_ERASE", 6) # {} /\ TrimTuples("SOLVER_ERASE", 2) # {}

\* The sentences of the rule infos of problem i + 1, one per rule info.
Rendered(i) ==
    [k \in DOMAIN goal.solv.rules[i + 1] |->
        LET r == goal.solv.rules[i + 1][k]
        IN  libdnf_problemruleinfo2str(r.type, r.source, r.target, r.dep)]

\* out holds each distinct sentence of sentences once, in the order of the
\* first occurrences.
FirstAt(sentences, s) ==
    CHOOSE k \in DOMAIN sentences :
        sentences[k] = s /\ \A j \in 1 .. k - 1 : sentences[j] # s
DistinctInOrder(out, sentences) ==
    /\ {out[k] : k \in DOMAIN out} = {sentences[k] : k \in DOMAIN sentences}
    /\ \A k, l \in DOMAIN out :
          k < l => out[k] # out[l] /\ FirstAt(sentences, out[k]) < FirstAt(sentences, out[l])

\* removalOfProtected holds no package.
NoRemovalOfProtected == goal.removalOfProtected.null \/ goal.removalOfProtected.map = {}

\* The installed packages, protected or the protected running kernel, that
\* are the source of a rule saying that a requirement cannot be met.
ProtectedBroken ==
    {p \in ProtectedSet(goal, sack) :
        /\ p \in PkgSolvables /\ Pool[p].repo = installed
        /\ \E i \in DOMAIN goal.solv.rules : \E k \in DOMAIN goal.solv.rules[i] :
              /\ goal.solv.rules[i][k].source = p
              /\ goal.solv.rules[i][k].type \in {"SOLVER_RULE_PKG_REQUIRES",
                                                 "SOLVER_RULE_PKG_NOTHING_PROVIDES_DEP"}}

\* C20 (amended): for i below the solver's problem count, when
\* removalOfProtected is empty and no installed protected package (or
\* protected running kernel) is the source of a PKG_REQUIRES or
\* PKG_NOTHING_PROVIDES_DEP rule of any problem, describeProblemRules(i)
\* is the sentences of the rule infos of problem i + 1, each distinct
\* sentence once in first-occurrence order.  Otherwise it is the single
\* protected-packages sentence: of removalOfProtected when that is not
\* empty, else of those protected packages with a broken requirement.
C20_RulesUnlessProtected ==
    (last.op = "run" /\ goal.solv.present)
    => \A i \in 0 .. goal.solv.problems - 1 :
          IF ~NoRemovalOfProtected
          THEN describeProblemRules(goal, sack, i)
               = <<ProtectedSentence(goal.removalOfProtected.map)>>
          ELSE IF ProtectedBroken # {}
          THEN describeProblemRules(goal, sack, i) = <<ProtectedSentence(ProtectedBroken)>>
          ELSE DistinctInOrder(describeProblemRules(goal, sack, i), Rendered(i))

\* A failed run with two problems, nothing protected in them: the sentences
\* of the first are fewer than its rule infos.
C20_Witness ==
    /\ last.op = "run" /\ goal.solv.problems = 2
    /\ NoRemovalOfProtected /\ ProtectedBroken = {}
    /\ Len(describeProblemRules(goal, sack, 0)) = 2
    /\ Len(Rendered(0)) = 4
    /\ Len(describeProblemRules(goal, sack, 1)) = 2

\* C20 as stated: when removalOfProtected is empty and i is below the
\* solver's problem count, describeProblemRules(i) is the distinct
\* sentences of problem i + 1 in first-occurrence order, and the
\* protected-packages sentence is returned only when removalOfProtected is
\* not empty.
C20_RulesUnlessRemoval ==
    (last.op = "run" /\ goal.solv.present)
    => \A i \in 0 .. goal.solv.problems - 1 :
          /\ NoRemovalOfProtected
             => DistinctInOrder(describeProblemRules(goal, sack, i), Rendered(i))
          /\ (\E ids \in SUBSET PkgSolvables :
                 ids # {} /\ describeProblemRules(goal, sack, i) = <<ProtectedSentence(ids)>>)
             => ~NoRemovalOfProtected

\* Two lists hold the same sentences the same number of times.
SameBag(a, b) ==
    \A s \in {a[k] : k \in DOMAIN a} \cup {b[k] : k \in DOMAIN b} :
        Cardinality({k \in DOMAIN a : a[k] = s}) = Cardinality({k \in DOMAIN b : b[k] = s})

\* The sentence lists of the problems, in problem order.
ProblemLists == [i \in 1 .. countProblems(goal) |-> describeProblemRules(goal, sack, i - 1)]

\* The problems whose list is kept: not empty and not the same bag as the
\* list of an earlier kept problem.
RECURSIVE KeptProblems(_)
KeptProblems(n) ==
    IF n = 0 THEN {}
    ELSE LET before == KeptProblems(n - 1)
         IN  IF ProblemLists[n] # <<>>
                /\ \A j \in before : ~SameBag(ProblemLists[j], ProblemLists[n])
             THEN before \cup {n} ELSE before

\* C21: describeAllProblemRules returns the non-empty sentence lists of the
\* problems in problem order, without each list that is the same multiset
\* as an earlier kept one; no two returned lists are the same multiset, and
\* every non-empty list of a problem is the same multiset as a returned one.
C21_AllRulesWithoutRepeats ==
    (last.op = "run" /\ goal.solv.present)
    => LET out == describeAllProblemRules(goal, sack)
           kept == SetToSeq(KeptProblems(countProblems(goal)))
       IN  /\ out = [k \in DOMAIN kept |-> ProblemLists[kept[k]]]
           /\ \A k, l \in DOMAIN out : k # l => ~SameBag(out[k], out[l])
           /\ \A i \in DOMAIN ProblemLists :
                 ProblemLists[i] # <<>> => \E k \in DOMAIN out : SameBag(out[k], ProblemLists[i])

\* Four problems: the third has the sentences of the first in another order
\* and is dropped, the second has one of them only and is kept.
C21_Witness ==
    /\ last.op = "run" /\ goal.solv.problems = 4 /\ NoRemovalOfProtected
    /\ ProblemLists[3] # ProblemLists[1] /\ SameBag(ProblemLists[3], ProblemLists[1])
    /\ Len(ProblemLists[2]) = 1
    /\ describeAllProblemRules(goal, sack) = <<ProblemLists[1], ProblemLists[2], ProblemLists[4]>>

\* The ids of the ALLOWUNINSTALL tuples of a job.
AllowUninstallIds(job) ==
    {job[i].id : i \in {k \in DOMAIN job : "SOLVER_ALLOWUNINSTALL" \in job[k].how}}

\* The installed solvables that are not protected by the Goal and are in
\* the considered map, when there is one.
Uninstallable(g, cons) ==
    {id \in Solvables : /\ Pool[id].repo = installed
                        /\ id \notin ProtectedSet(g, sack)
                        /\ (cons.null \/ id \in cons.map)}

\* C22 (amended): no job handed to the solver has an ALLOWUNINSTALL tuple
\* for a package of the protected set, nor for the running kernel while
\* protect_running_kernel is on.  With ALLOW_UNINSTALL set, constructJob
\* appends ALLOWUNINSTALL|SOLVABLE for exactly the other installed
\* solvables that the considered map of the pool, as it stands when the run
\* starts, does not leave out; without the flag it appends none.  The job
\* of the install-only retry gets the tuples for the other installed
\* solvables that are considered after the excludes were recomputed,
\* whatever the flags.
C22_AllowUninstallButProtected ==
    [][last'.op = "run"
       => /\ \A k \in DOMAIN run'.jobs :
                 /\ AllowUninstallIds(run'.jobs[k]) \cap ProtectedSet(goal', sack) = {}
                 /\ \A i \in DOMAIN run'.jobs[k] :
                       "SOLVER_ALLOWUNINSTALL" \in run'.jobs[k][i].how
                       => run'.jobs[k][i].how = {"SOLVER_ALLOWUNINSTALL", "SOLVER_SOLVABLE"}
          /\ AllowUninstallIds(run'.constructed)
                 = IF "DNF_ALLOW_UNINSTALL" \in run'.flags
                   THEN Uninstallable(goal', considered) ELSE {}
          /\ Len(run'.jobs) = 2
             => AllowUninstallIds(run'.jobs[2])
                   = AllowUninstallIds(run'.constructed) \cup Uninstallable(goal', considered')]_vars

\* A run with ALLOW_UNINSTALL while package 2 is protected and the running
\* kernel is not: the job has a tuple for the kernel and none for 2.
C22_Witness ==
    /\ last.op = "run" /\ "DNF_ALLOW_UNINSTALL" \in run.flags
    /\ ~goal.protect_running_kernel /\ goal.protectedPkgs.map = {2}
    /\ AllowUninstallIds(run.constructed) = {sack.running_kernel}

\* C22 as stated: never a tuple for a protected package or for the running
\* kernel, and with ALLOW_UNINSTALL a tuple for every other installed
\* solvable.
C22_NeverTheRunningKernel ==
    last.op = "run"
    => /\ \A k \in DOMAIN run.jobs :
              AllowUninstallIds(run.jobs[k])
                 \cap (goal.protectedPkgs.map \cup {sack.running_kernel}) = {}
       /\ "DNF_ALLOW_UNINSTALL" \in run.flags
          => AllowUninstallIds(run.constructed)
                = {id \in Solvables : Pool[id].repo = installed}
                     \ (goal.protectedPkgs.map \cup {sack.running_kernel})

\* The solvables a request matches when it is made without NOT on a query
\* over the whole pool.
MatchesOf(req) ==
    LET pos == [req EXCEPT !.cmp_type = @ \ {"NOT"}]
        added(a) == apply(a.q, a.considered).q.result.map
    IN  added(addFilter(NewQuery("IGNORE_EXCLUDES"), considered, pos))

\* C23: for every string or package-set filter that addFilter accepts,
\* apply removes the matches of the filter from the result when its
\* comparison contains NOT, and keeps only the matches when it does not.
C23_NotRemovesMatches ==
    \A req \in {r \in FilterRequests : r.mt \in {"str", "pkg"}} :
        LET before(st) ==
                LET after(a) ==
                        a.rc = OK
                        => apply(a.q, a.considered).q.result.map
                              = IF "NOT" \in req.cmp_type
                                THEN st.q.result.map \ MatchesOf(req)
                                ELSE st.q.result.map \cap MatchesOf(req)
                IN  after(addFilter(st.q, st.considered, req))
        IN  before(apply(queries["q"], considered))

\* C24: after every run the Goal holds a transaction exactly when the last
\* solve of that run found a solution, and it holds the solver of that run:
\* the Goal after the run is what the same run leaves of a Goal that had no
\* solver and no transaction, so nothing of an earlier solver or transaction
\* is left.
C24_FreshSolverAndTransaction ==
    [][last'.op = "run"
       => /\ goal'.solv.present
          /\ goal'.trans.present <=> run'.solved[Len(run'.solved)] = 0
          /\ \E ans \in PolicyAnswers :
                [goal |-> goal', run |-> run']
                   \in goalRun([goal EXCEPT !.solv = NoSolv, !.trans = NoTrans], sack,
                               considered, considered', run'.flags, ans)]_vars

\* A run whose solve failed, after a run whose transaction removed a
\* protected package: no transaction is left.
C24_Witness ==
    /\ last.op = "run" /\ run.solved = <<1>> /\ ~goal.trans.present
    /\ ~goal.removalOfProtected.null /\ goal.removalOfProtected.map # {}

\* The result of query q after two more addFilter calls and one apply, and
\* after the same calls with an apply after each.
AddedThenApplied(r1, r2) ==
    LET two(a) ==
            LET one(b) == apply(b.q, b.considered).q.result.map
            IN  one(addFilter(a.q, a.considered, r2))
    IN  two(addFilter(queries["q"], considered, r1))

AppliedAfterEach(r1, r2) ==
    LET first(a) ==
            LET applied(s) ==
                    LET second(b) == apply(b.q, b.considered).q.result.map
                    IN  second(addFilter(s.q, s.considered, r2))
            IN  applied(apply(a.q, a.considered))
    IN  first(addFilter(queries["q"], considered, r1))

\* C25: whatever query q holds (a result, a pending filter), adding two
\* filters and applying once gives the result of applying after each
\* addFilter; this covers NEVRA_STRICT, which addFilter applies at once
\* after the pending filters, and calls that addFilter rejects.
C25_OneApplyAsApplyAfterEach ==
    \A r1, r2 \in FilterRequests : AddedThenApplied(r1, r2) = AppliedAfterEach(r1, r2)

\* Query q holds a pending filter, and two filters whose order matters are
\* added to it: the one apply gives what the applies after each give, which
\* is not what the other order gives.
C25_Witness ==
    /\ last.op = "addFilter" /\ last.rc = OK /\ Len(queries["q"].filters) = 1
    /\ \E r1, r2 \in FilterRequests :
          /\ addFilter(queries["q"], considered, r1).rc = OK
          /\ addFilter(queries["q"], considered, r2).rc = OK
          /\ AddedThenApplied(r1, r2) = AppliedAfterEach(r1, r2)
          /\ AddedThenApplied(r1, r2) # AddedThenApplied(r2, r1)

\* A staged tuple as the job of a run with the given flags holds it.
InJob(tuple, flags) ==
    [tuple EXCEPT !.how = (@ \cup (IF "DNF_FORCE_BEST" \in flags THEN {"SOLVER_FORCEBEST"} ELSE {}))
                          \ (IF "DNF_IGNORE_WEAK" \in flags THEN {"SOLVER_WEAK"} ELSE {})]

C27_RemovalOfProtectedOfLastRun ==
    (/\ last.op = "run"
     /\ ~goal.trans.present \/ Removed(goal) \cap ProtectedSet(goal, sack) = {})
    => /\ NoRemovalOfProtected
       /\ countProblems(goal) = goal.solv.problems
       /\ \A i \in 0 .. countProblems(goal) - 1 :
             \A ids \in SUBSET PkgSolvables :
                (ids # {} /\ describeProblemRules(goal, sack, i) = <<ProtectedSentence(ids)>>)
                => ids \subseteq ProtectedBroken

\* The result of a Query after one more filter and apply.
ResultAfter(qr, req) ==
    LET added(a) == apply(a.q, a.considered).q.result
    IN  added(addFilter(qr, considered, req))

\* C28: a copy of a Query has the pending filters, the result, the applied
\* bit and the exclude mode of its source, and the same further filter gives
\* the same result on both, UPGRADABLE and DOWNGRADABLE under every exclude
\* mode included.
C28_CopyIsEquivalent ==
    last.op \in {"copy", "assign"}
    => LET src == queries["q"]
           copy == queries["other"]
       IN  /\ copy.filters = src.filters /\ copy.result = src.result
           /\ copy.applied = src.applied /\ copy.flags = src.flags
           /\ \A req \in CopyRequests : ResultAfter(copy, req) = ResultAfter(src, req)

\* C29: a copy of a Goal has the staging queue, the actions, the protected
\* set, the weak excludes, removalOfProtected and the
\* protect_running_kernel setting of its source and no solver or
\* transaction, and a run of the copy builds the job that the same run of
\* the source builds.
C29_CopyOfGoalIsEquivalent ==
    [][last'.op = "copy"
       => /\ goal'.staging = goal.staging /\ goal'.actions = goal.actions
          /\ goal'.protectedPkgs = goal.protectedPkgs
          /\ goal'.exclude_from_weak = goal.exclude_from_weak
          /\ goal'.removalOfProtected = goal.removalOfProtected
          /\ goal'.protect_running_kernel = goal.protect_running_kernel
          /\ ~goal'.solv.present /\ ~goal'.trans.present
          /\ \A flags \in PolicyFlags :
                constructJob(goal', sack, considered, flags).job
                   = constructJob(goal, sack, considered, flags).job]_vars

\* A selector whose filters each have one match and a comparison that its
\* lowering accepts, and whose arch, evr or reponame filter comes with a
\* name, provides or file filter or with packages.
WellFormedSelector(sltr) ==
    /\ \A f \in {sltr.name, sltr.provides, sltr.file, sltr.arch, sltr.evr, sltr.reponame} :
          f.set => Len(f.matches) = 1
    /\ sltr.name.set => sltr.name.cmp_type \in {HY_EQ, HY_GLOB}
    /\ \A f \in {sltr.provides, sltr.file, sltr.arch, sltr.evr, sltr.reponame} :
          f.set => f.cmp_type = HY_EQ
    /\ any_opt_filter(sltr) => any_req_filter(sltr)

\* C30: for a well-formed selector, sltrToJob ends normally or with
\* BAD_SELECTOR; no assertion of the lowering of arch and evr fails.
C30_WellFormedSelectorNeverAborts ==
    (last.op \in SltrOps /\ WellFormedSelector(last.sltr))
    => last.rc \in {OK, DNF_ERROR_BAD_SELECTOR}

====
